---------------------------- MODULE Spec2Model ----------------------------
(***************************************************************************)
(* A model of pleiades_accession: the gazetteer index (pleiades.py), the   *)
(* candidate dataset loader (candidates.py), the multi-signal matcher      *)
(* (matching.py) and the match ranking of the review script (review.py).   *)
(*                                                                         *)
(* Geometry is discretised: a geometry is a finite set of integer cells    *)
(* <<x, y>>, distances are Euclidean and compared squared, and a buffer of *)
(* radius r is the set of cells within distance r.  A buffered point is    *)
(* therefore not a rectangle, so a geometry and its envelope differ, as    *)
(* they do for the buffered hulls the program builds.                      *)
(***************************************************************************)
EXTENDS Integers, Sequences, FiniteSets, TLC

(***************************************************************************)
(* Bounds of the model.                                                    *)
(***************************************************************************)
\* candidate points are drawn from the grid (0..GridMax) x (0..GridMax)
GridMax == 3
\* a candidate file holds at most MaxFeatures features
MaxFeatures == 3
\* a candidate has at most MaxMatches matches to rank
MaxMatches == 3
\* the clock runs from 0 to MaxClock
MaxClock == 5
\* at most MaxObjects PleiadesPlace objects wrap the same place
MaxObjects == 2
\* feature["links"] holds at most MaxLinks links
MaxLinks == 3
\* an output file of the review holds at most MaxLines lines
MaxLines == 2

(***************************************************************************)
(* Program constants, in cells (one cell is about ten kilometres).         *)
(***************************************************************************)
\* matching.py:42   spatial_buffer=10.0 km, about 0.09 degrees
spatial_buffer == 1
\* pleiades.py:381  max_distance=0.18 degrees, twice the default buffer
max_distance == 2
\* matching.py:152  score_cutoff=90
score_cutoff == 90
\* matching.py:153  limit=5
limit == 5
\* pleiades.py:97   timedelta(days=1), in clock ticks of twelve hours
TTL == 2
\* review.py:249    the first five matches are shown
shown_limit == 5

(***************************************************************************)
(* URIs.  A URI scheme://netloc/seg1/seg2 is the record of its netloc and  *)
(* its path segments.                                                      *)
(***************************************************************************)
PleiadesHost == "pleiades.stoa.org"

PL(pid) == [netloc |-> PleiadesHost, segs |-> <<"places", pid>>]

WDQ1 == [netloc |-> "www.wikidata.org", segs |-> <<"wiki", "Q1">>]

C1uri == [netloc |-> "whgazetteer.org", segs |-> <<"c1">>]

C2uri == [netloc |-> "whgazetteer.org", segs |-> <<"c2">>]

\* a candidate id that is no URL: urlparse gives it an empty netloc
PlainId == [netloc |-> "", segs |-> <<"c3">>]

\* urlparse(u).netloc
Netloc(u) == u.netloc

\* "pleiades.stoa.org" in link: a substring test on the whole URI
IsPleiadesLink(u) ==
    \/ u.netloc = PleiadesHost
    \/ \E i \in 1..Len(u.segs) : u.segs[i] = PleiadesHost

\* [p for p in puri.split("/") if p][-1]
LastSegment(u) == IF Len(u.segs) > 0 THEN u.segs[Len(u.segs)] ELSE u.netloc

(***************************************************************************)
(* Geometry.                                                               *)
(***************************************************************************)
Grid == (0..GridMax) \X (0..GridMax)

Dist2(a, b) == (a[1] - b[1]) * (a[1] - b[1]) + (a[2] - b[2]) * (a[2] - b[2])

\* geom.buffer(r): every cell within distance r of the geometry
Buffer(g, r) ==
    UNION { { d \in ((c[1] - r)..(c[1] + r)) \X ((c[2] - r)..(c[2] + r)) :
                Dist2(c, d) <= r * r } : c \in g }

\* shapely intersects: the geometries share a point
Intersects(g, h) == g \cap h # {}

MinOf(S) == CHOOSE m \in S : \A n \in S : m <= n

MaxOf(S) == CHOOSE m \in S : \A n \in S : m >= n

\* the envelope (bounding box) of a non-empty geometry
Envelope(g) ==
    [xmin |-> MinOf({c[1] : c \in g}), xmax |-> MaxOf({c[1] : c \in g}),
     ymin |-> MinOf({c[2] : c \in g}), ymax |-> MaxOf({c[2] : c \in g})]

EnvelopesIntersect(g, h) ==
    /\ g # {} /\ h # {}
    /\ LET a == Envelope(g)
           b == Envelope(h)
       IN  /\ a.xmin <= b.xmax /\ b.xmin <= a.xmax
           /\ a.ymin <= b.ymax /\ b.ymin <= a.ymax

\* squared distance between two non-empty geometries
GeomDist2(g, h) == MinOf({ Dist2(c, d) : c \in g, d \in h })

(***************************************************************************)
(* The gazetteer: raw place records, as the place provider hands them out. *)
(***************************************************************************)
Pids == {"p1", "p2"}

Loc(cell, precise, accuracy) ==
    [geometry |-> {cell}, precise |-> precise, accuracy_value |-> accuracy]

\* a name of a place whose attested form is missing
None == "None"

\* a name resource of a place; the romanized string is kept as the sequence
\* of its comma-separated items
Name(attested, romanized) == [attested |-> attested, romanized |-> romanized]

\* A title is kept as the sequence of its segments between slashes, so
\* title.split("/") is the sequence itself.
\* a precise place that references candidate c1 and a wikidata item
RawA == [title |-> <<"Roma">>,
         names |-> << >>,
         locations |-> <<Loc(<<0, 0>>, TRUE, 1)>>,
         references |-> {C1uri, WDQ1}]

\* a rough place: it has a geometry but no footprint
RawB == [title |-> <<"Roma">>,
         names |-> <<Name("Bar", <<"Bar">>)>>,
         locations |-> <<Loc(<<3, 3>>, FALSE, 1)>>,
         references |-> {WDQ1}]

\* a precise place without references
RawC == [title |-> <<"Bar">>,
         names |-> << >>,
         locations |-> <<Loc(<<3, 3>>, TRUE, 1)>>,
         references |-> {}]

\* a place without locations that references candidate c2
RawD == [title |-> <<"Foo">>,
         names |-> << >>,
         locations |-> << >>,
         references |-> {C2uri}]

RawPool == {RawA, RawB, RawC, RawD}

\* a precise place next to the place of RawA: its footprint is disjoint
\* from that of RawA and less than the spatial buffer away; it references
\* the candidate id that is no URL
RawI == [title |-> <<"Bar">>,
         names |-> << >>,
         locations |-> <<Loc(<<2, 1>>, TRUE, 1)>>,
         references |-> {PlainId}]

Gazetteers == [Pids -> RawPool]

\* the enumeration orders of fs.index.keys()
Orders == { o \in [1..Cardinality(Pids) -> Pids] :
              \A i, j \in DOMAIN o : i # j => o[i] # o[j] }

\* str.strip() on the strings of the model
strip(s) ==
    CASE s = " Roma "   -> "Roma"
      [] s = "Roma "    -> "Roma"
      [] s = " (Rome) " -> "(Rome)"
      [] s = " "        -> ""
      [] OTHER          -> s

\* str.startswith(prefix) on the strings of the model
startswith(s, prefix) ==
    CASE prefix = "()" -> s \in {"()", "()Rome)"}
      [] prefix = "("  -> s \in {"(", "()", "(Rome)", "()Rome)"}
      [] OTHER         -> s = prefix

\* str.endswith(suffix) on the strings of the model
endswith(s, suffix) ==
    CASE suffix = ")" -> s \in {")", "()", "(Rome)", "()Rome)"}
      [] OTHER        -> s = suffix

\* the title parts that name_strings keeps: the non-empty stripped segments
\* that do not both start with "()" and end with ")"
title_parts(raw) ==
    { t \in { strip(raw.title[i]) : i \in 1..Len(raw.title) } \ {""} :
        ~(startswith(t, "()") /\ endswith(t, ")")) }

\* the attested forms: a missing one raises AttributeError and is skipped
attested_forms(raw) ==
    { strip(raw.names[i].attested) :
        i \in { j \in 1..Len(raw.names) : raw.names[j].attested # None } } \ {""}

\* the items of the comma-separated romanized strings
romanized_forms(raw) ==
    UNION { { strip(raw.names[i].romanized[j]) :
                j \in 1..Len(raw.names[i].romanized) } :
            i \in 1..Len(raw.names) } \ {""}

\* PleiadesPlace.name_strings of a raw place
name_strings(raw) ==
    title_parts(raw) \cup attested_forms(raw) \cup romanized_forms(raw)

NoFootprint == {}

\* PleiadesPlace.footprint of a raw place: the hull of the buffered precise
\* geometries, or no footprint when the place has no precise geometry
footprint(raw) ==
    LET precise == { i \in 1..Len(raw.locations) :
                       /\ raw.locations[i].geometry # {}
                       /\ raw.locations[i].precise }
    IN  IF precise = {} THEN NoFootprint
        ELSE UNION { Buffer(raw.locations[i].geometry,
                            raw.locations[i].accuracy_value) : i \in precise }

\* dictionary helpers
EmptyDict == [k \in {} |-> {}]

Get(d, k, default) == IF k \in DOMAIN d THEN d[k] ELSE default

Put(d, k, v) == (k :> v) @@ d

(***************************************************************************)
(* State.                                                                  *)
(***************************************************************************)
VARIABLES
    \* the gazetteer index (pleiades.py, class Pleiades)
    gaz,                  \* fs: pid -> raw place record
    order,                \* fs.index.keys(), the enumeration order
    ipc,                  \* position of Pleiades.__init__
    ik,                   \* position of the running build loop in order
    attrs,                \* the attributes of the Pleiades object set so far
    names_index,          \* name string -> set of pids
    hulls,                \* the list of footprints handed to STRtree
    tree_built,           \* _spatial_index is an STRtree (not None)
    spatial_index_2_pid,  \* position in the tree -> pid
    links_index,          \* _links_index: uri -> set of pids
    links_by_pids,        \* _links_by_pids: pid -> set of uris
    qres,                 \* the last query issued and how it ended
    \* the matcher (matching.py, Matcher.match)
    mpc,                  \* position of Matcher.match
    cand,                 \* the candidate of the running iteration
    matched,              \* matched
    match_votes,          \* match_votes: pid -> set of tags
    skip_other_tests,     \* skip_other_tests
    spatial_matched_pids, \* spatial_matched_pids
    name_matched_pids,    \* name_matched_pids
    match_vote_totals,    \* match_vote_totals: candidate id -> match_votes
    calls,                \* the lookups issued for the running candidate
    \* the candidate loader (candidates.py, CandidateDataset)
    lfile,                \* j["features"], the features of the file read
    lpos,                 \* position of the loop over the features
    lcandidates,          \* candidates, the local dictionary
    features,             \* self.features
    lstatus,              \* loading, loaded, or the error raised
    \* the review script (review.py, main)
    rpc,                  \* position of main for the candidate shown
    matches,              \* list(matches.values()) of the candidate
    weights,              \* the weight table
    weighed,              \* the list of (match, weight) pairs being built
    weighted_matches,     \* weighted_matches
    \* the footprint of one place (pleiades.py, PleiadesPlace.footprint)
    fraw,                 \* _raw_data of the place
    geos,                 \* which hull constructions GEOS fails on for it
    cache_file,           \* hull_cache_path / "<pid>.geojson"
    now,                  \* datetime.now()
    memo,                 \* the lru_cache of footprint: place object -> result
    fres,                 \* the last footprint request and how it ended
    \* the links of one candidate (candidates.py, CandidateFeature.links)
    klinks,               \* feature["links"]
    kpos,                 \* position of the loop over the links
    links,                \* links, the set being built
    kstatus,              \* resolving, returned, or the error raised
    \* a review session (review.py, main)
    kw_continue,          \* kwargs["continue"]
    kw_skipreciprocal,    \* kwargs["skipreciprocal"]
    accession_file,       \* to_accession.txt
    followup_file,        \* follow_up.txt
    join_file,            \* to_join.txt
    previous,             \* the backup directory previous/<last modified>
    accession_ids,        \* accession_ids
    followup_ids,         \* followup_ids
    joins,                \* joins: candidate id -> pid
    spc,                  \* position of main
    sfile,                \* j, the match file, as the list of its items
    sj,                   \* position of the loop over j.items()
    sout                  \* the last command read and what was printed for it

ivars == <<gaz, order, ipc, ik, attrs, names_index, hulls, tree_built,
           spatial_index_2_pid, links_index, links_by_pids, qres>>

mvars == <<mpc, cand, matched, match_votes, skip_other_tests,
           spatial_matched_pids, name_matched_pids, match_vote_totals, calls>>

lvars == <<lfile, lpos, lcandidates, features, lstatus>>

rvars == <<rpc, matches, weights, weighed, weighted_matches>>

fvars == <<fraw, geos, cache_file, now, memo, fres>>

kvars == <<klinks, kpos, links, kstatus>>

svars == <<kw_continue, kw_skipreciprocal, accession_file, followup_file,
           join_file, previous, accession_ids, followup_ids, joins, spc,
           sfile, sj, sout>>

vars == <<ivars, mvars, lvars, rvars, fvars, kvars, svars>>

\* what the index build and the index queries leave alone
not_index == <<mvars, lvars, rvars, fvars, kvars, svars>>

\* what the matcher leaves alone
not_match == <<ivars, lvars, rvars, fvars, kvars, svars>>

\* what the loader leaves alone
not_load == <<ivars, mvars, rvars, fvars, kvars, svars>>

\* what the review script leaves alone
not_review == <<ivars, mvars, lvars, fvars, kvars, svars>>

\* what a footprint request leaves alone
not_footprint == <<ivars, mvars, lvars, rvars, kvars, svars>>

\* what CandidateFeature.links leaves alone
not_links == <<ivars, mvars, lvars, rvars, fvars, svars>>

\* what the review session leaves alone
not_session == <<ivars, mvars, lvars, fvars, kvars, rpc, weights, weighed>>

(***************************************************************************)
(* Building the index: Pleiades.__init__ and the three _initialize_*.      *)
(***************************************************************************)
\* the names loop keeping only the first pid of a name string
names_add_first_pid(idx, pid, raw) ==
    [n \in DOMAIN idx \cup name_strings(raw) |->
        IF n \in DOMAIN idx THEN idx[n] ELSE {pid}]

\* the names loop restricted to the places of the spatial index
names_add_if_footprint(idx, pid, raw) ==
    IF footprint(raw) = NoFootprint THEN idx
    ELSE [n \in DOMAIN idx \cup name_strings(raw) |->
            Get(idx, n, {}) \cup (IF n \in name_strings(raw) THEN {pid} ELSE {})]

\* one iteration of the loop of _initialize_names_index
names_add(idx, pid, raw) ==
    [n \in DOMAIN idx \cup name_strings(raw) |->
        Get(idx, n, {}) \cup (IF n \in name_strings(raw) THEN {pid} ELSE {})]

\* the uris of a place's references: accessURI, stripped, empty ones skipped
reference_uris(raw) == raw.references

\* the forward index keeping only the last pid of a uri
links_index_overwrite(idx, pid, raw) ==
    [u \in DOMAIN idx \cup reference_uris(raw) |->
        IF u \in reference_uris(raw) THEN {pid} ELSE idx[u]]

\* one iteration of the outer loop of _initialize_links_index, forward index
links_index_add(idx, pid, raw) ==
    [u \in DOMAIN idx \cup reference_uris(raw) |->
        Get(idx, u, {}) \cup (IF u \in reference_uris(raw) THEN {pid} ELSE {})]

\* one iteration of the outer loop of _initialize_links_index, reverse index
links_by_pids_add(idx, pid, raw) == Put(idx, pid, reference_uris(raw))

\* the side table given an entry for every place
side_table_add_every_place(tbl, hs, pid, raw) == Put(tbl, Len(hs), pid)

\* one iteration of the loop of _initialize_spatial_index: the side table
side_table_add(tbl, hs, pid, raw) ==
    IF footprint(raw) # NoFootprint THEN Put(tbl, Len(hs), pid) ELSE tbl

\* one iteration of the loop of _initialize_spatial_index: the hull list
hulls_add(hs, raw) ==
    IF footprint(raw) # NoFootprint THEN Append(hs, footprint(raw)) ELSE hs

IndexState ==
    IF ipc = "new" THEN "Uninitialized"
    ELSE IF ipc = "ready" THEN "Ready" ELSE "Building"

NoQuery == [op |-> "none", at |-> "none", outcome |-> "none",
            g |-> {}, pids |-> {}, uris |-> {}]

\* Pleiades.__init__ up to the call of _initialize_names_index
Construct ==
    /\ ipc = "new"
    /\ ipc' = "names"
    /\ ik' = 1
    /\ attrs' = attrs \cup {"names_index"}
    /\ names_index' = EmptyDict
    /\ UNCHANGED <<gaz, order, hulls, tree_built, spatial_index_2_pid,
                   links_index, links_by_pids, qres>>
    /\ UNCHANGED not_index

NamesStep ==
    /\ ipc = "names"
    /\ ik <= Len(order)
    /\ names_index' = names_add(names_index, order[ik], gaz[order[ik]])
    /\ ik' = ik + 1
    /\ UNCHANGED <<gaz, order, ipc, attrs, hulls, tree_built,
                   spatial_index_2_pid, links_index, links_by_pids, qres>>
    /\ UNCHANGED not_index

\* the names loop ends; __init__ sets _spatial_index = None and the side
\* table, and enters _initialize_spatial_index
SpatialBegin ==
    /\ ipc = "names"
    /\ ik > Len(order)
    /\ ipc' = "spatial"
    /\ ik' = 1
    /\ attrs' = attrs \cup {"_spatial_index", "_spatial_index_2_pid"}
    /\ tree_built' = FALSE
    /\ spatial_index_2_pid' = EmptyDict
    /\ hulls' = << >>
    /\ UNCHANGED <<gaz, order, names_index, links_index, links_by_pids, qres>>
    /\ UNCHANGED not_index

SpatialStep ==
    /\ ipc = "spatial"
    /\ ik <= Len(order)
    /\ spatial_index_2_pid' =
          side_table_add(spatial_index_2_pid, hulls, order[ik], gaz[order[ik]])
    /\ hulls' = hulls_add(hulls, gaz[order[ik]])
    /\ ik' = ik + 1
    /\ UNCHANGED <<gaz, order, ipc, attrs, names_index, tree_built,
                   links_index, links_by_pids, qres>>
    /\ UNCHANGED not_index

\* self._spatial_index = STRtree(hulls)
SpatialDone ==
    /\ ipc = "spatial"
    /\ ik > Len(order)
    /\ tree_built' = TRUE
    /\ ipc' = "links_begin"
    /\ UNCHANGED <<gaz, order, ik, attrs, names_index, hulls,
                   spatial_index_2_pid, links_index, links_by_pids, qres>>
    /\ UNCHANGED not_index

\* _initialize_links_index creates the two dictionaries
LinksBegin ==
    /\ ipc = "links_begin"
    /\ ipc' = "links"
    /\ ik' = 1
    /\ attrs' = attrs \cup {"_links_index", "_links_by_pids"}
    /\ links_index' = EmptyDict
    /\ links_by_pids' = EmptyDict
    /\ UNCHANGED <<gaz, order, names_index, hulls, tree_built,
                   spatial_index_2_pid, qres>>
    /\ UNCHANGED not_index

LinksStep ==
    /\ ipc = "links"
    /\ ik <= Len(order)
    /\ links_index' = links_index_add(links_index, order[ik], gaz[order[ik]])
    /\ links_by_pids' = links_by_pids_add(links_by_pids, order[ik], gaz[order[ik]])
    /\ ik' = ik + 1
    /\ UNCHANGED <<gaz, order, ipc, attrs, names_index, hulls, tree_built,
                   spatial_index_2_pid, qres>>
    /\ UNCHANGED not_index

\* __init__ returns
LinksDone ==
    /\ ipc = "links"
    /\ ik > Len(order)
    /\ ipc' = "ready"
    /\ UNCHANGED <<gaz, order, ik, attrs, names_index, hulls, tree_built,
                   spatial_index_2_pid, links_index, links_by_pids, qres>>
    /\ UNCHANGED not_index

(***************************************************************************)
(* The queries of the index.                                               *)
(***************************************************************************)
\* STRtree.query(geometry) without a predicate: the positions of the tree
\* geometries whose envelope intersects the envelope of the query geometry
tree_query(hs, g) ==
    { i \in 0..(Len(hs) - 1) : EnvelopesIntersect(hs[i + 1], g) }

\* query_nearest without the maximum distance
tree_query_nearest_unbounded(hs, g, d) ==
    { i \in 0..(Len(hs) - 1) : \A j \in 0..(Len(hs) - 1) :
          GeomDist2(hs[i + 1], g) <= GeomDist2(hs[j + 1], g) }

\* STRtree.query_nearest(geometry, max_distance): the positions of the tree
\* geometries nearest to the query geometry, all ties, within max_distance
tree_query_nearest(hs, g, d) ==
    LET near == { i \in 0..(Len(hs) - 1) : GeomDist2(hs[i + 1], g) <= d * d }
    IN  { i \in near : \A j \in near :
              GeomDist2(hs[i + 1], g) <= GeomDist2(hs[j + 1], g) }

\* Pleiades.spatial_query, past its guard
spatial_query(g) == { spatial_index_2_pid[i] : i \in tree_query(hulls, g) }

\* Pleiades.spatial_nearest, past its guard
spatial_nearest(g) ==
    { spatial_index_2_pid[i] : i \in tree_query_nearest(hulls, g, max_distance) }

\* Pleiades.get_pid_by_link: the pids of the uri; None (here the empty set)
\* when the uri is not indexed
get_pid_by_link(uri) == Get(links_index, uri, {})

\* get_links_by_pid filtering also on an empty target_netloc
get_links_by_pid_always_filtered(pid, target_netloc) ==
    IF pid \in DOMAIN links_by_pids /\ target_netloc # ""
    THEN { l \in links_by_pids[pid] : Netloc(l) = target_netloc }
    ELSE {}

\* Pleiades.get_links_by_pid
get_links_by_pid(pid, target_netloc) ==
    IF pid \notin DOMAIN links_by_pids THEN {}
    ELSE IF target_netloc # ""
         THEN { l \in links_by_pids[pid] : Netloc(l) = target_netloc }
         ELSE links_by_pids[pid]

\* the geometries a caller queries with: grid points and the footprints
QueryGeoms ==
    { {c} : c \in Grid } \cup ({ footprint(r) : r \in RawPool } \ {NoFootprint})

QueryUris == {C1uri, C2uri, WDQ1}

QueryNetlocs == {"", "whgazetteer.org"}

QuerySpatial ==
    /\ \E g \in QueryGeoms :
         qres' = IF "_spatial_index" \notin attrs
                 THEN [NoQuery EXCEPT !.op = "spatial_query", !.at = IndexState,
                                      !.outcome = "AttributeError", !.g = g]
                 ELSE IF ~tree_built
                 THEN [NoQuery EXCEPT !.op = "spatial_query", !.at = IndexState,
                                      !.outcome = "RuntimeError", !.g = g]
                 ELSE [NoQuery EXCEPT !.op = "spatial_query", !.at = IndexState,
                                      !.outcome = "result", !.g = g,
                                      !.pids = spatial_query(g)]
    /\ UNCHANGED <<gaz, order, ipc, ik, attrs, names_index, hulls, tree_built,
                   spatial_index_2_pid, links_index, links_by_pids>>
    /\ UNCHANGED not_index

QueryNearest ==
    /\ \E g \in QueryGeoms :
         qres' = IF "_spatial_index" \notin attrs
                 THEN [NoQuery EXCEPT !.op = "spatial_nearest", !.at = IndexState,
                                      !.outcome = "AttributeError", !.g = g]
                 ELSE IF ~tree_built
                 THEN [NoQuery EXCEPT !.op = "spatial_nearest", !.at = IndexState,
                                      !.outcome = "RuntimeError", !.g = g]
                 ELSE [NoQuery EXCEPT !.op = "spatial_nearest", !.at = IndexState,
                                      !.outcome = "result", !.g = g,
                                      !.pids = spatial_nearest(g)]
    /\ UNCHANGED <<gaz, order, ipc, ik, attrs, names_index, hulls, tree_built,
                   spatial_index_2_pid, links_index, links_by_pids>>
    /\ UNCHANGED not_index

\* get_pid_by_link creating the entry of a uri that is not indexed
QueryPidByLink_inserting ==
    /\ "_links_index" \in attrs
    /\ \E u \in QueryUris :
         /\ qres' = [NoQuery EXCEPT !.op = "get_pid_by_link", !.at = IndexState,
                                    !.outcome = "result",
                                    !.pids = Get(links_index, u, {})]
         /\ links_index' = IF u \in DOMAIN links_index THEN links_index
                           ELSE Put(links_index, u, {})
    /\ UNCHANGED <<gaz, order, ipc, ik, attrs, names_index, hulls, tree_built,
                   spatial_index_2_pid, links_by_pids>>
    /\ UNCHANGED not_index

QueryPidByLink ==
    /\ \E u \in QueryUris :
         qres' = IF "_links_index" \notin attrs
                 THEN [NoQuery EXCEPT !.op = "get_pid_by_link", !.at = IndexState,
                                      !.outcome = "AttributeError"]
                 ELSE [NoQuery EXCEPT !.op = "get_pid_by_link", !.at = IndexState,
                                      !.outcome = "result",
                                      !.pids = get_pid_by_link(u)]
    /\ UNCHANGED <<gaz, order, ipc, ik, attrs, names_index, hulls, tree_built,
                   spatial_index_2_pid, links_index, links_by_pids>>
    /\ UNCHANGED not_index

QueryLinksByPid ==
    /\ \E p \in Pids, n \in QueryNetlocs :
         qres' = IF "_links_by_pids" \notin attrs
                 THEN [NoQuery EXCEPT !.op = "get_links_by_pid", !.at = IndexState,
                                      !.outcome = "AttributeError"]
                 ELSE [NoQuery EXCEPT !.op = "get_links_by_pid", !.at = IndexState,
                                      !.outcome = "result",
                                      !.uris = get_links_by_pid(p, n)]
    /\ UNCHANGED <<gaz, order, ipc, ik, attrs, names_index, hulls, tree_built,
                   spatial_index_2_pid, links_index, links_by_pids>>
    /\ UNCHANGED not_index

(***************************************************************************)
(* Candidates (candidates.py, CandidateFeature).                           *)
(***************************************************************************)
CandidateIds == {C1uri, C2uri}

CandidateNames == { {"Roma"}, {"BAR"}, {"Zeta"} }

CandidateLinks == SUBSET {PL("p1"), WDQ1}

Candidates ==
    [id : CandidateIds, geometry : { {c} : c \in Grid },
     name_strings : CandidateNames, links : CandidateLinks]

NoCand == [id |-> [netloc |-> "", segs |-> << >>], geometry |-> {},
           name_strings |-> {}, links |-> {}]

(***************************************************************************)
(* Fuzzy name matching (rapidfuzz process.extract with fuzz.WRatio).       *)
(***************************************************************************)
\* utils.default_process: lower case, non-alphanumerics to spaces, trimmed
default_process(s) ==
    CASE s = "Roma" -> "roma"
      [] s = "Bar"  -> "bar"
      [] s = "BAR"  -> "bar"
      [] s = "Foo"  -> "foo"
      [] s = "Zeta" -> "zeta"
      [] OTHER      -> s

\* fuzz.WRatio on the processed strings: 100 for equal strings; the other
\* pairs of the vocabulary score below the cutoff
WRatio(a, b) == IF default_process(a) = default_process(b) THEN 100 ELSE 50

\* process.extract(name, choices, score_cutoff=90, limit=5): the choices that
\* reach the cutoff, at most limit of them
extract(name, choices) ==
    LET good == { c \in choices : WRatio(name, c) >= score_cutoff }
    IN  IF Cardinality(good) <= limit THEN good
        ELSE CHOOSE S \in SUBSET good : Cardinality(S) = limit

(***************************************************************************)
(* Matcher.match, one candidate per iteration of its loop.                 *)
(***************************************************************************)
\* plinks
plinks(c) == { l \in c.links : IsPleiadesLink(l) }

\* non_plinks
non_plinks(c) == { l \in c.links : ~IsPleiadesLink(l) }

\* faulty variant: the reverse links are filtered to the gazetteer's netloc
is_reciprocal_gazetteer_netloc(cid, pid) ==
    cid \in get_links_by_pid(pid, PleiadesHost)

\* cid in self.pleiades.get_links_by_pid(pid, target_netloc=urlparse(cid).netloc)
is_reciprocal(cid, pid) == cid \in get_links_by_pid(pid, Netloc(cid))

\* match_votes after the loop over plinks
first_order_votes(c) ==
    [pid \in { LastSegment(l) : l \in plinks(c) } |->
        {"first-order link"}
        \cup (IF is_reciprocal(c.id, pid) THEN {"reciprocal link"} ELSE {})]

\* the pids get_pid_by_link finds for the candidate's other links
second_order_pids(c) == UNION { get_pid_by_link(u) : u \in non_plinks(c) }

\* add one tag to each of the pids, creating the entries that are missing
add_tag(votes, pids, tag) ==
    [pid \in DOMAIN votes \cup pids |->
        IF pid \in pids THEN Get(votes, pid, {}) \cup {tag} ELSE votes[pid]]

\* candidate_geom.buffer(meters_to_degrees(spatial_buffer * 1000, lat))
buffered_geom(c) == Buffer(c.geometry, spatial_buffer)

\* the footprint hits left without their tag
footprint_votes_untagged(votes, pids) ==
    [pid \in DOMAIN votes \cup pids |->
        IF pid \in DOMAIN votes THEN votes[pid] ELSE {}]

\* for pid in spatial_matched_pids: match_votes[pid] = {"footprint"}
footprint_votes(votes, pids) ==
    [pid \in DOMAIN votes \cup pids |->
        IF pid \in pids THEN {"footprint"} ELSE votes[pid]]

\* the pids of the names the candidate's name strings are keys of
exact_name_pids(c) ==
    UNION { Get(names_index, n, {}) : n \in c.name_strings }

\* name_choices = list(self.pleiades.names_index.keys())
name_choices == DOMAIN names_index

\* the pids of the names process.extract returns for the candidate's names
fuzzy_name_pids(c) ==
    UNION { names_index[m] :
              m \in UNION { extract(n, name_choices) : n \in c.name_strings } }

\* faulty variant: the fuzzy pids are not intersected with the spatial hits
fuzzy_survivors_unfiltered(fuzzy, spatial) == fuzzy

\* the fuzzy pids kept: those among the spatial hits when there are any
fuzzy_survivors(fuzzy, spatial) ==
    IF spatial # {} THEN spatial \cap fuzzy ELSE fuzzy

\* the survivors that get the tag: for pid in ...: if pid in matched
fuzzy_tagged(survivors, m) == { pid \in survivors : pid \in m }

\* faulty variant: a candidate without votes is left out of the result
record_if_votes(totals, cid, votes) ==
    IF DOMAIN votes = {} THEN totals ELSE Put(totals, cid, votes)

\* match_vote_totals[cid] = match_votes
record(totals, cid, votes) == Put(totals, cid, votes)

\* the for statement without the reset of matched
NextCandidate_keeping_matched ==
    /\ mpc = "loop"
    /\ \E c \in Candidates :
         /\ c.id \notin DOMAIN match_vote_totals
         /\ cand' = c
    /\ match_votes' = EmptyDict
    /\ skip_other_tests' = FALSE
    /\ calls' = {}
    /\ mpc' = "links"
    /\ UNCHANGED <<matched, spatial_matched_pids, name_matched_pids,
                   match_vote_totals>>
    /\ UNCHANGED not_match

\* the for statement takes the next feature of the dataset and resets the
\* per-candidate sets; ids are unique in candidates.features
NextCandidate ==
    /\ mpc = "loop"
    /\ \E c \in Candidates :
         /\ c.id \notin DOMAIN match_vote_totals
         /\ cand' = c
    /\ matched' = {}
    /\ match_votes' = EmptyDict
    /\ skip_other_tests' = FALSE
    /\ calls' = {}
    /\ mpc' = "links"
    /\ UNCHANGED <<spatial_matched_pids, name_matched_pids, match_vote_totals>>
    /\ UNCHANGED not_match

\* first-order and reciprocal link matches
FirstOrderLinks ==
    /\ mpc = "links"
    /\ match_votes' = first_order_votes(cand)
    /\ matched' = matched \cup DOMAIN first_order_votes(cand)
    /\ skip_other_tests' =
          \E pid \in DOMAIN first_order_votes(cand) : is_reciprocal(cand.id, pid)
    /\ calls' = calls \cup (IF plinks(cand) # {} THEN {"get_links_by_pid"} ELSE {})
    /\ mpc' = "check"
    /\ UNCHANGED <<cand, spatial_matched_pids, name_matched_pids,
                   match_vote_totals>>
    /\ UNCHANGED not_match

\* if skip_other_tests: record the votes and continue with the next candidate
ShortCircuit ==
    /\ mpc = "check"
    /\ skip_other_tests
    /\ match_vote_totals' = record(match_vote_totals, cand.id, match_votes)
    /\ mpc' = "loop"
    /\ UNCHANGED <<cand, matched, match_votes, skip_other_tests,
                   spatial_matched_pids, name_matched_pids, calls>>
    /\ UNCHANGED not_match

\* second-order link matches
SecondOrderLinks ==
    /\ mpc = "check"
    /\ ~skip_other_tests
    /\ match_votes' = add_tag(match_votes, second_order_pids(cand),
                              "second-order link")
    /\ matched' = matched \cup second_order_pids(cand)
    /\ calls' = calls \cup (IF non_plinks(cand) # {} THEN {"get_pid_by_link"}
                            ELSE {})
    /\ mpc' = "spatial"
    /\ UNCHANGED <<cand, skip_other_tests, spatial_matched_pids,
                   name_matched_pids, match_vote_totals>>
    /\ UNCHANGED not_match

\* spatial overlap/intersection/containment
SpatialMatch ==
    /\ mpc = "spatial"
    /\ spatial_matched_pids' = spatial_query(buffered_geom(cand))
    /\ match_votes' = footprint_votes(match_votes, spatial_matched_pids')
    /\ matched' = matched \cup spatial_matched_pids'
    /\ calls' = calls \cup {"spatial_query"}
    /\ mpc' = "nearest"
    /\ UNCHANGED <<cand, skip_other_tests, name_matched_pids, match_vote_totals>>
    /\ UNCHANGED not_match

\* the nearest lookup run whatever the footprint query found
NearestMatch_unconditional ==
    /\ mpc = "nearest"
    /\ spatial_matched_pids' =
          spatial_matched_pids \cup spatial_nearest(cand.geometry)
    /\ match_votes' = add_tag(match_votes, spatial_nearest(cand.geometry),
                              "nearest")
    /\ matched' = matched \cup spatial_matched_pids'
    /\ calls' = calls \cup {"spatial_nearest"}
    /\ mpc' = "exact"
    /\ UNCHANGED <<cand, skip_other_tests, name_matched_pids, match_vote_totals>>
    /\ UNCHANGED not_match

\* failing that, spatial proximity
NearestMatch ==
    /\ mpc = "nearest"
    /\ IF spatial_matched_pids = {}
       THEN /\ spatial_matched_pids' = spatial_nearest(cand.geometry)
            /\ match_votes' = add_tag(match_votes, spatial_matched_pids', "nearest")
            /\ matched' = matched \cup spatial_matched_pids'
            /\ calls' = calls \cup {"spatial_nearest"}
       ELSE UNCHANGED <<spatial_matched_pids, match_votes, matched, calls>>
    /\ mpc' = "exact"
    /\ UNCHANGED <<cand, skip_other_tests, name_matched_pids, match_vote_totals>>
    /\ UNCHANGED not_match

\* name string matches within spatial matches
ExactNameMatch ==
    /\ mpc = "exact"
    /\ name_matched_pids' = exact_name_pids(cand)
    /\ match_votes' = add_tag(match_votes, name_matched_pids', "exact name")
    /\ matched' = matched \cup
          (IF spatial_matched_pids # {}
           THEN spatial_matched_pids \cap name_matched_pids'
           ELSE name_matched_pids')
    /\ calls' = calls \cup {"names_index"}
    /\ mpc' = "fuzzy"
    /\ UNCHANGED <<cand, skip_other_tests, spatial_matched_pids,
                   match_vote_totals>>
    /\ UNCHANGED not_match

\* near name string matches within spatial matches
FuzzyNameMatch ==
    /\ mpc = "fuzzy"
    /\ LET fuzzy == fuzzy_name_pids(cand)
           survivors == fuzzy_survivors(fuzzy, spatial_matched_pids)
       IN  IF fuzzy # {}
           THEN /\ match_votes' = add_tag(match_votes,
                                          fuzzy_tagged(survivors, matched),
                                          "fuzzy name")
                /\ matched' = matched \cup survivors
           ELSE UNCHANGED <<match_votes, matched>>
    /\ calls' = calls \cup {"fuzzy"}
    /\ mpc' = "record"
    /\ UNCHANGED <<cand, skip_other_tests, spatial_matched_pids,
                   name_matched_pids, match_vote_totals>>
    /\ UNCHANGED not_match

\* match_vote_totals[cid] = match_votes, at the end of the loop body
Record ==
    /\ mpc = "record"
    /\ match_vote_totals' = record(match_vote_totals, cand.id, match_votes)
    /\ mpc' = "loop"
    /\ UNCHANGED <<cand, matched, match_votes, skip_other_tests,
                   spatial_matched_pids, name_matched_pids, calls>>
    /\ UNCHANGED not_match

\* the dataset is exhausted: return match_vote_totals
Return ==
    /\ mpc = "loop"
    /\ mpc' = "done"
    /\ UNCHANGED <<cand, matched, match_votes, skip_other_tests,
                   spatial_matched_pids, name_matched_pids, match_vote_totals,
                   calls>>
    /\ UNCHANGED not_match

(***************************************************************************)
(* The index as Pleiades.__init__ leaves it, for a gazetteer and an order. *)
(***************************************************************************)
RECURSIVE built_names(_, _, _)
built_names(g, o, k) ==
    IF k = 0 THEN EmptyDict
    ELSE names_add(built_names(g, o, k - 1), o[k], g[o[k]])

RECURSIVE built_hulls(_, _, _)
built_hulls(g, o, k) ==
    IF k = 0 THEN << >> ELSE hulls_add(built_hulls(g, o, k - 1), g[o[k]])

RECURSIVE built_side_table(_, _, _)
built_side_table(g, o, k) ==
    IF k = 0 THEN EmptyDict
    ELSE side_table_add(built_side_table(g, o, k - 1),
                        built_hulls(g, o, k - 1), o[k], g[o[k]])

RECURSIVE built_links_index(_, _, _)
built_links_index(g, o, k) ==
    IF k = 0 THEN EmptyDict
    ELSE links_index_add(built_links_index(g, o, k - 1), o[k], g[o[k]])

RECURSIVE built_links_by_pids(_, _, _)
built_links_by_pids(g, o, k) ==
    IF k = 0 THEN EmptyDict
    ELSE links_by_pids_add(built_links_by_pids(g, o, k - 1), o[k], g[o[k]])

AllAttrs == {"names_index", "_spatial_index", "_spatial_index_2_pid",
             "_links_index", "_links_by_pids"}

\* the gazetteers the matcher runs against
MatchGazetteers ==
    { g \in [Pids -> RawPool \cup {RawI}] : g["p1"] = RawA }

ReadyIndex ==
    /\ gaz \in MatchGazetteers
    /\ order = <<"p1", "p2">>
    /\ ipc = "ready"
    /\ ik = Len(order) + 1
    /\ attrs = AllAttrs
    /\ names_index = built_names(gaz, order, Len(order))
    /\ hulls = built_hulls(gaz, order, Len(order))
    /\ tree_built = TRUE
    /\ spatial_index_2_pid = built_side_table(gaz, order, Len(order))
    /\ links_index = built_links_index(gaz, order, Len(order))
    /\ links_by_pids = built_links_by_pids(gaz, order, Len(order))
    /\ qres = NoQuery

MatchIdle ==
    /\ mpc = "loop"
    /\ cand = NoCand
    /\ matched = {}
    /\ match_votes = EmptyDict
    /\ skip_other_tests = FALSE
    /\ spatial_matched_pids = {}
    /\ name_matched_pids = {}
    /\ match_vote_totals = EmptyDict
    /\ calls = {}

(***************************************************************************)
(* CandidateDataset._load_candidates.                                      *)
(***************************************************************************)
FeaturePool == [id : CandidateIds, title : {"Roma", "Zeta"}]

RECURSIVE SeqsUpTo(_, _)
SeqsUpTo(S, n) ==
    IF n = 0 THEN { << >> }
    ELSE SeqsUpTo(S, n - 1)
         \cup { Append(q, x) : q \in { r \in SeqsUpTo(S, n - 1) : Len(r) = n - 1 },
                               x \in S }

\* one iteration of the loop over j["features"]: the duplicate test looks
\* the id up in self.features, the new feature goes into candidates
LoadFeature ==
    /\ lstatus = "loading"
    /\ lpos <= Len(lfile)
    /\ IF lfile[lpos]["id"] \in DOMAIN features
       THEN /\ lstatus' = "ValueError"
            /\ UNCHANGED <<lcandidates, lpos>>
       ELSE /\ lcandidates' = Put(lcandidates, lfile[lpos]["id"], lfile[lpos])
            /\ lpos' = lpos + 1
            /\ UNCHANGED lstatus
    /\ UNCHANGED <<lfile, features>>
    /\ UNCHANGED not_load

\* self.features = candidates
LoadFinish ==
    /\ lstatus = "loading"
    /\ lpos > Len(lfile)
    /\ features' = lcandidates
    /\ lstatus' = "loaded"
    /\ UNCHANGED <<lfile, lpos, lcandidates>>
    /\ UNCHANGED not_load

LoadIdle ==
    /\ lfile = << >>
    /\ lpos = 1
    /\ lcandidates = EmptyDict
    /\ features = EmptyDict
    /\ lstatus = "idle"

(***************************************************************************)
(* Ranking the matches of a candidate (review.py).                         *)
(***************************************************************************)
\* the weight table of main
ReviewWeights ==
    << {"reciprocal link"},
       {"footprint", "exact name", "first-order link", "place type"},
       {"footprint", "fuzzy name", "first-order link", "place type"},
       {"exact name", "first-order link", "place type"},
       {"fuzzy name", "first-order link", "place type"},
       {"footprint", "exact name", "first-order link"},
       {"footprint", "fuzzy name", "first-order link"},
       {"exact name", "first-order link"},
       {"fuzzy name", "first-order link"},
       {"footprint", "exact name", "second-order link", "place type"},
       {"footprint", "fuzzy name", "second-order link", "place type"},
       {"footprint", "exact name", "second-order link"},
       {"footprint", "fuzzy name", "second-order link"},
       {"footprint", "first-order link", "place type"},
       {"first-order link"},
       {"footprint", "second-order link", "place type"},
       {"second-order link", "place type"},
       {"footprint", "exact name", "place type"},
       {"footprint", "fuzzy name", "place type"},
       {"footprint", "exact name"},
       {"footprint", "fuzzy name"},
       {"exact name", "place type"},
       {"fuzzy name", "place type"},
       {"footprint", "place type"},
       {"exact name"},
       {"fuzzy name"},
       {"footprint"} >>

\* a caller's table: weight takes the table as a parameter
ExampleWeights ==
    << {"reciprocal link"}, {"footprint", "exact name"}, {"footprint"} >>

WeightTables == {ReviewWeights, ExampleWeights}

\* the match type lists of the matches to rank
MatchTypePool ==
    { {"footprint", "exact name", "nearest"},
      {"footprint"},
      {"nearest"},
      {"exact name"},
      {"first-order link", "reciprocal link"},
      {"footprint", "fuzzy name", "second-order link", "place type"},
      {} }

\* matches.values(): the match of position i is the i-th entry of the file
MatchLists ==
    UNION { { [i \in 1..n |-> [pid |-> i, match_types |-> t[i]]] :
                t \in [1..n -> MatchTypePool] } : n \in 0..MaxMatches }

RECURSIVE weight_from(_, _, _)
weight_from(match_types, ws, i) ==
    IF i > Len(ws) THEN Len(ws)
    ELSE IF ws[i] \subseteq match_types THEN i - 1
         ELSE weight_from(match_types, ws, i + 1)

\* faulty variant: enumerate counting from 1
weight_one_based(match, ws) == weight_from(match.match_types, ws, 1) + 1

\* weight(match, weights): enumerate counts from 0
weight(match, ws) == weight_from(match.match_types, ws, 1)

\* faulty variant: x goes in front of the entries of equal key
RECURSIVE insert_before_equal(_, _)
insert_before_equal(sorted, x) ==
    IF sorted = << >> THEN <<x>>
    ELSE IF sorted[Len(sorted)][2] < x[2] THEN Append(sorted, x)
         ELSE Append(insert_before_equal(SubSeq(sorted, 1, Len(sorted) - 1), x),
                     sorted[Len(sorted)])

\* sorted() keeps the order of equal keys: x goes behind every entry whose
\* key is not greater
RECURSIVE insert_by_key(_, _)
insert_by_key(sorted, x) ==
    IF sorted = << >> THEN <<x>>
    ELSE IF sorted[Len(sorted)][2] <= x[2] THEN Append(sorted, x)
         ELSE Append(insert_by_key(SubSeq(sorted, 1, Len(sorted) - 1), x),
                     sorted[Len(sorted)])

RECURSIVE sorted_by_key(_, _)
sorted_by_key(pairs, k) ==
    IF k = 0 THEN << >>
    ELSE insert_by_key(sorted_by_key(pairs, k - 1), pairs[k])

\* sorted(pairs, key=lambda x: x[1])
ranked(pairs) == sorted_by_key(pairs, Len(pairs))

\* [(m, weight(m, weights)) for m in matches.values()], one match at a time
WeighMatch ==
    /\ rpc = "candidate"
    /\ Len(weighed) < Len(matches)
    /\ weighed' = Append(weighed, <<matches[Len(weighed) + 1],
                                    weight(matches[Len(weighed) + 1], weights)>>)
    /\ UNCHANGED <<rpc, matches, weights, weighted_matches>>
    /\ UNCHANGED not_review

\* weighted_matches = sorted(...)
RankMatches ==
    /\ rpc = "candidate"
    /\ Len(weighed) = Len(matches)
    /\ weighted_matches' = ranked(weighed)
    /\ rpc' = "ranked"
    /\ UNCHANGED <<matches, weights, weighed>>
    /\ UNCHANGED not_review

ReviewIdle ==
    /\ rpc = "idle"
    /\ matches = << >>
    /\ weights = << >>
    /\ weighed = << >>
    /\ weighted_matches = << >>

(***************************************************************************)
(* PleiadesPlace.footprint with its two caches: the lru_cache of the       *)
(* property, per place object, and the hull cache file, per pid.           *)
(***************************************************************************)
\* accuracy_value is None
NoAccuracy == -1

\* the locations whose geometry is set and whose precision is "precise"
precise_locations(raw) ==
    { i \in 1..Len(raw.locations) :
        raw.locations[i].geometry # {} /\ raw.locations[i].precise }

\* the accuracy test left out
missing_accuracy_defaulted(raw) == FALSE

\* a precise geometry has no accuracy_value: the loop raises RuntimeError.
\* The DARMC floor of 2000 m is a fifth of a cell and does not change a
\* buffer of the grid.
missing_accuracy(raw) ==
    \E i \in precise_locations(raw) :
        raw.locations[i].accuracy_value = NoAccuracy

\* self.buffered_geometries
buffered_geometries(raw) ==
    { Buffer(raw.locations[i].geometry, raw.locations[i].accuracy_value) :
        i \in precise_locations(raw) }

\* twice the signed area of the triangle a, b, c
Cross(a, b, c) ==
    (b[1] - a[1]) * (c[2] - a[2]) - (b[2] - a[2]) * (c[1] - a[1])

\* the cells of the convex hull of a geometry
ConvexHull(g) ==
    IF g = {} THEN {}
    ELSE LET e == Envelope(g)
         IN  { c \in (e.xmin..e.xmax) \X (e.ymin..e.ymax) :
                 \A a, b \in g :
                   (a # b /\ \A q \in g : Cross(a, b, q) >= 0)
                     => Cross(a, b, c) >= 0 }

\* concave_hull(GeometryCollection(geoms), 0.2), when GEOS does not fail
concave_hull(geoms) == UNION geoms

\* convex_hull(GeometryCollection(geoms)), when GEOS does not fail
convex_hull(geoms) == ConvexHull(UNION geoms)

\* which of the three hull constructions GEOS completes for a place
GeosOutcomes == [concave_ok : BOOLEAN, convex_ok : BOOLEAN, retry_ok : BOOLEAN]

\* the hull block with both failures swallowed
hull_failure_swallowed(geoms, g) ==
    IF geoms = {} THEN [outcome |-> "value", h |-> NoFootprint]
    ELSE IF g.concave_ok THEN [outcome |-> "value", h |-> concave_hull(geoms)]
    ELSE IF g.convex_ok /\ g.retry_ok
         THEN [outcome |-> "value", h |-> concave_hull({convex_hull(geoms)})]
         ELSE [outcome |-> "value", h |-> NoFootprint]

\* the hull block: concave hull, on GEOSException the convex hull and the
\* concave hull of that; None without buffered geometries
hull(geoms, g) ==
    IF geoms = {} THEN [outcome |-> "value", h |-> NoFootprint]
    ELSE IF g.concave_ok THEN [outcome |-> "value", h |-> concave_hull(geoms)]
    ELSE IF ~g.convex_ok THEN [outcome |-> "GEOSException", h |-> NoFootprint]
    ELSE IF ~g.retry_ok THEN [outcome |-> "GEOSException", h |-> NoFootprint]
    ELSE [outcome |-> "value", h |-> concave_hull({convex_hull(geoms)})]

\* the computation of the footprint from the location data
compute_footprint(raw, g) ==
    IF missing_accuracy(raw)
    THEN [outcome |-> "RuntimeError", h |-> NoFootprint]
    ELSE hull(buffered_geometries(raw), g)

\* the cache file does not exist
NoFile == [exists |-> FALSE, text |-> "", geometry |-> {}, mtime |-> 0]

\* to_geojson(h): None for no footprint, and then "" is written
to_geojson(h) == IF h = NoFootprint THEN "" ELSE "geojson"

\* the file as written only when there is a footprint
cache_write_if_footprint(file, h, t) ==
    IF h = NoFootprint THEN file
    ELSE [exists |-> TRUE, text |-> to_geojson(h), geometry |-> h, mtime |-> t]

\* the file as the with block at the end of footprint writes it
cache_write(file, h, t) ==
    [exists |-> TRUE, text |-> to_geojson(h), geometry |-> h, mtime |-> t]

\* from_geojson(geo_str)
from_geojson(file) == file.geometry

\* the cache file is there and younger than a day
cache_fresh(file, t) == file.exists /\ t - file.mtime < TTL

\* what the cache branch returns: the geometry, or None for an empty file
cache_read(file) == IF file.text # "" THEN from_geojson(file) ELSE NoFootprint

Objs == 1..MaxObjects

NotComputed == [computed |-> FALSE, value |-> NoFootprint]

AllOk == [concave_ok |-> TRUE, convex_ok |-> TRUE, retry_ok |-> TRUE]

NoRequest == [obj |-> 0, outcome |-> "none", source |-> "none",
              value |-> NoFootprint, at |-> 0]

\* place.footprint on one of the place objects of the pid
RequestFootprint ==
    /\ \E obj \in Objs :
         IF memo[obj].computed
         THEN /\ fres' = [obj |-> obj, outcome |-> "value",
                          source |-> "lru_cache", value |-> memo[obj].value,
                          at |-> now]
              /\ UNCHANGED <<cache_file, memo>>
         ELSE IF cache_fresh(cache_file, now)
         THEN /\ fres' = [obj |-> obj, outcome |-> "value",
                          source |-> "cache file",
                          value |-> cache_read(cache_file), at |-> now]
              /\ memo' = [memo EXCEPT ![obj] =
                            [computed |-> TRUE, value |-> cache_read(cache_file)]]
              /\ UNCHANGED cache_file
         ELSE LET c == compute_footprint(fraw, geos)
              IN  IF c.outcome # "value"
                  THEN /\ fres' = [obj |-> obj, outcome |-> c.outcome,
                                   source |-> "computed", value |-> NoFootprint,
                                   at |-> now]
                       /\ UNCHANGED <<cache_file, memo>>
                  ELSE /\ fres' = [obj |-> obj, outcome |-> "value",
                                   source |-> "computed", value |-> c.h,
                                   at |-> now]
                       /\ cache_file' = cache_write(cache_file, c.h, now)
                       /\ memo' = [memo EXCEPT ![obj] =
                                     [computed |-> TRUE, value |-> c.h]]
    /\ UNCHANGED <<fraw, geos, now>>
    /\ UNCHANGED not_footprint

\* time passes
Tick ==
    /\ now < MaxClock
    /\ now' = now + 1
    /\ UNCHANGED <<fraw, geos, cache_file, memo, fres>>
    /\ UNCHANGED not_footprint

\* a precise place whose only location has no accuracy value
RawE == [title |-> <<"Roma">>,
         names |-> << >>,
         locations |-> <<Loc(<<1, 1>>, TRUE, NoAccuracy)>>,
         references |-> {}]

\* two precise locations, the second without accuracy value
RawF == [title |-> <<"Roma">>,
         names |-> << >>,
         locations |-> <<Loc(<<0, 0>>, TRUE, 1), Loc(<<2, 1>>, TRUE, NoAccuracy)>>,
         references |-> {}]

\* two precise locations: the hull of the buffers is not convex
RawG == [title |-> <<"Roma">>,
         names |-> << >>,
         locations |-> <<Loc(<<0, 0>>, TRUE, 1), Loc(<<2, 1>>, TRUE, 1)>>,
         references |-> {}]

\* a precise location without geometry and accuracy, and a rough one
RawH == [title |-> <<"Roma">>,
         names |-> << >>,
         locations |-> <<[geometry |-> {}, precise |-> TRUE,
                          accuracy_value |-> NoAccuracy],
                         Loc(<<3, 3>>, FALSE, 1)>>,
         references |-> {}]

FootprintPool == {RawA, RawB, RawD, RawE, RawF, RawG, RawH}

FootprintIdle ==
    /\ fraw = RawD
    /\ geos = AllOk
    /\ cache_file = NoFile
    /\ now = 0
    /\ memo = [o \in Objs |-> NotComputed]
    /\ fres = NoRequest

(***************************************************************************)
(* CandidateFeature.links.  An identifier "namespace:identifier" is kept   *)
(* as its two parts around the first colon; a full URL has the namespace   *)
(* http or https and carries the URI it denotes.                           *)
(***************************************************************************)
NoUri == [netloc |-> "", segs |-> << >>]

Link(type, namespace, identifier, url) ==
    [type |-> type, namespace |-> namespace, identifier |-> identifier,
     url |-> url]

\* link["identifier"].startswith("http")
is_http(l) == l.namespace \in {"http", "https"}

\* the namespaces with an expansion
Expanded == {"pl", "wd", "viaf", "wp", "gn", "tgn"}

\* the namespaces ignored for now
Ignored == {"loc", "gnd", "bnf"}

\* identifier.replace(" ", "_")
underscored(s) == CASE s = "New York" -> "New_York" [] OTHER -> s

\* raw_link of a compact identifier with an expansion
expand(l) ==
    CASE l.namespace = "pl" -> PL(l.identifier)
      [] l.namespace = "wd" ->
           [netloc |-> "www.wikidata.org", segs |-> <<"wiki", l.identifier>>]
      [] l.namespace = "viaf" ->
           [netloc |-> "viaf.org", segs |-> <<"viaf", l.identifier>>]
      [] l.namespace = "wp" ->
           [netloc |-> "en.wikipedia.org",
            segs |-> <<"wiki", underscored(l.identifier)>>]
      [] l.namespace = "gn" ->
           [netloc |-> "www.geonames.org", segs |-> <<l.identifier>>]
      [] l.namespace = "tgn" ->
           [netloc |-> "vocab.getty.edu", segs |-> <<"tgn", l.identifier>>]

\* validators.url(raw_link)
validate_url(u) == u.netloc # "" /\ u.netloc # "not a host"

\* one iteration with an unknown namespace skipped like an ignored one
resolve_unknown_skipped(acc, l) ==
    IF l.type # "closeMatch" THEN [outcome |-> "next", links |-> acc]
    ELSE IF ~is_http(l) /\ l.namespace \notin Expanded
    THEN [outcome |-> "next", links |-> acc]
    ELSE LET raw_link == IF is_http(l) THEN l.url ELSE expand(l)
         IN  [outcome |-> "next",
              links |-> IF validate_url(raw_link) THEN acc \cup {raw_link}
                        ELSE acc]

\* one iteration of the loop over feature["links"]
resolve(acc, l) ==
    IF l.type # "closeMatch" THEN [outcome |-> "next", links |-> acc]
    ELSE IF ~is_http(l) /\ l.namespace \in Ignored
    THEN [outcome |-> "next", links |-> acc]
    ELSE IF ~is_http(l) /\ l.namespace \notin Expanded
    THEN [outcome |-> "NotImplementedError", links |-> acc]
    ELSE LET raw_link == IF is_http(l) THEN l.url ELSE expand(l)
         IN  [outcome |-> "next",
              links |-> IF validate_url(raw_link) THEN acc \cup {raw_link}
                        ELSE acc]

LinkPool ==
    { Link("closeMatch", "pl", "p1", NoUri),
      Link("closeMatch", "wd", "Q1", NoUri),
      Link("closeMatch", "wp", "New York", NoUri),
      Link("closeMatch", "loc", "n1", NoUri),
      Link("closeMatch", "xx", "1", NoUri),
      Link("closeMatch", "https", "", WDQ1),
      Link("closeMatch", "http", "", [netloc |-> "not a host", segs |-> << >>]),
      Link("primaryTopicOf", "xx", "2", NoUri) }

ResolveLink ==
    /\ kstatus = "resolving"
    /\ kpos <= Len(klinks)
    /\ LET r == resolve(links, klinks[kpos])
       IN  IF r.outcome = "next"
           THEN /\ links' = r.links
                /\ kpos' = kpos + 1
                /\ UNCHANGED kstatus
           ELSE /\ kstatus' = r.outcome
                /\ UNCHANGED <<links, kpos>>
    /\ UNCHANGED klinks
    /\ UNCHANGED not_links

\* return links
ReturnLinks ==
    /\ kstatus = "resolving"
    /\ kpos > Len(klinks)
    /\ kstatus' = "returned"
    /\ UNCHANGED <<klinks, kpos, links>>
    /\ UNCHANGED not_links

LinksIdle ==
    /\ klinks = << >>
    /\ kpos = 1
    /\ links = {}
    /\ kstatus = "idle"

(***************************************************************************)
(* Places whose titles and names exercise name_strings.                    *)
(***************************************************************************)
NameOnly(title, names) ==
    [title |-> title, names |-> names, locations |-> << >>, references |-> {}]

NamePool ==
    { NameOnly(<<"Roma">>, << >>),
      NameOnly(<<"Roma ", " (Rome) ">>, << >>),
      NameOnly(<<"Bar", "()Rome)">>, <<Name(None, <<"Bar", " Roma ">>)>>),
      NameOnly(<<"Foo", " ">>,
               <<Name(" Roma ", <<" ">>), Name("", <<"Bar">>)>>),
      NameOnly(<<"(Rome)">>, <<Name("Bar", << >>)>>) }

(***************************************************************************)
(* The review session: main of review.py.  A file is the record of its     *)
(* existence and its lines; a line of to_join.txt "cid: pid" is the record *)
(* of its two parts.  The commands that only copy to the clipboard are not *)
(* among the inputs.                                                       *)
(***************************************************************************)
Absent == [exists |-> FALSE, lines |-> << >>]

File(lines) == [exists |-> TRUE, lines |-> lines]

JoinLine(cid, pid) == [cid |-> cid, pid |-> pid]

\* open(path, "a") and write one line
append(file, line) == File(Append(file.lines, line))

\* the set built by the loops over the lines of a file
lines_of(file) == { file.lines[i] : i \in 1..Len(file.lines) }

\* joins as the loop over the lines of to_join.txt leaves it
RECURSIVE loaded_joins(_, _)
loaded_joins(ls, k) ==
    IF k = 0 THEN EmptyDict
    ELSE Put(loaded_joins(ls, k - 1), ls[k].cid, ls[k].pid)

\* the output files an earlier session has left
PreviousOutputs ==
    { [accession |-> Absent, followup |-> Absent, join |-> Absent],
      [accession |-> File(<<C2uri>>), followup |-> File(<< >>),
       join |-> File(<<JoinLine(C1uri, 9)>>)],
      [accession |-> Absent, followup |-> File(<<C1uri>>),
       join |-> File(<<JoinLine(C2uri, 9)>>)] }

SixMatches == [i \in 1..(shown_limit + 1) |->
                 [pid |-> i, match_types |-> {"footprint"}]]

TwoMatches == <<[pid |-> 1, match_types |-> {"nearest"}],
                [pid |-> 2, match_types |-> {"footprint", "exact name"}]>>

OneReciprocal ==
    <<[pid |-> 1, match_types |-> {"first-order link", "reciprocal link"}]>>

\* the match files reviewed: j.items() in file order
SessionFiles ==
    { <<[id |-> C1uri, matches |-> SixMatches],
        [id |-> C2uri, matches |-> OneReciprocal]>>,
      <<[id |-> C1uri, matches |-> TwoMatches],
        [id |-> C2uri, matches |-> << >>]>>,
      <<[id |-> C1uri, matches |-> OneReciprocal],
        [id |-> C2uri, matches |-> TwoMatches]>> }

\* the commands typed at the prompt, after lower() and strip()
Commands == {"q", "h", "w", "whole", "n", "a", "f",
             "j0", "j1", "j2", "j7", "z"}

\* rx_compound_cmd.match(s): the command letter and the number, or no match
rx_compound_cmd(s) ==
    CASE s = "j0" -> [matched |-> TRUE, cmd |-> "j", val |-> 0]
      [] s = "j1" -> [matched |-> TRUE, cmd |-> "j", val |-> 1]
      [] s = "j2" -> [matched |-> TRUE, cmd |-> "j", val |-> 2]
      [] s = "j7" -> [matched |-> TRUE, cmd |-> "j", val |-> 7]
      [] OTHER    -> [matched |-> FALSE, cmd |-> "", val |-> 0]

\* len(s)
len(s) == IF s \in {"q", "h", "w", "n", "a", "f", "z"} THEN 1 ELSE Len(s)

\* [(m, weight(m, weights)) for m in matches.values()]
weigh_all(ms, ws) == [i \in 1..Len(ms) |-> <<ms[i], weight(ms[i], ws)>>]

NoOutput == [cmd |-> "", printed |-> "", count |-> 0]

Printed(s, what, n) == [cmd |-> s, printed |-> what, count |-> n]

\* case "j" with the earlier join replaced
join_replacing(js, file, cid, pid) ==
    [joins |-> Put(js, cid, pid), file |-> append(file, JoinLine(cid, pid)),
     printed |-> "Marked to join"]

\* case "j": the join is recorded unless the candidate has one
join(js, file, cid, pid) ==
    IF cid \in DOMAIN js
    THEN [joins |-> js, file |-> file, printed |-> "ERROR already marked to join"]
    ELSE [joins |-> Put(js, cid, pid),
          file |-> append(file, JoinLine(cid, pid)),
          printed |-> "Marked to join"]

\* main up to the loading of the match file: the backup of the previous
\* session, then either the confirmation and the removal of the output
\* files, or the loading of the previous decisions
StartSession ==
    /\ spc = "start"
    /\ previous' = IF accession_file.exists \/ followup_file.exists
                   THEN [accession |-> accession_file,
                         followup |-> followup_file]
                   ELSE previous
    /\ IF ~kw_continue
       THEN /\ \E answer \in {"y", "n"} :
                 IF answer = "y"
                 THEN /\ accession_file' = Absent
                      /\ followup_file' = Absent
                      /\ spc' = "loaded"
                 ELSE /\ spc' = "declined"
                      /\ UNCHANGED <<accession_file, followup_file>>
            /\ UNCHANGED <<accession_ids, followup_ids, joins>>
       ELSE /\ accession_ids' = lines_of(accession_file)
            /\ followup_ids' = lines_of(followup_file)
            /\ joins' = loaded_joins(join_file.lines, Len(join_file.lines))
            /\ spc' = "loaded"
            /\ UNCHANGED <<accession_file, followup_file>>
    /\ UNCHANGED <<kw_continue, kw_skipreciprocal, join_file, sfile, sj, sout>>
    /\ UNCHANGED <<matches, weighted_matches>>
    /\ UNCHANGED not_session

\* Proceed to review? (y/n)
ProceedToReview ==
    /\ spc = "loaded"
    /\ \E answer \in {"y", "n"} :
         spc' = IF answer = "y" THEN "loop" ELSE "declined"
    /\ UNCHANGED <<kw_continue, kw_skipreciprocal, accession_file,
                   followup_file, join_file, previous, accession_ids,
                   followup_ids, joins, sfile, sj, sout>>
    /\ UNCHANGED <<matches, weighted_matches>>
    /\ UNCHANGED not_session

\* the candidate is skipped: decided before, or a lone reciprocal match
skipped(entry) ==
    \/ entry.id \in accession_ids
    \/ entry.id \in followup_ids
    \/ entry.id \in DOMAIN joins
    \/ /\ kw_skipreciprocal
       /\ Len(entry.matches) = 1
       /\ "reciprocal link" \in entry.matches[1].match_types

\* one pass of the for statement up to the prompt: the candidate is
\* skipped, or its matches are ranked and the first five are shown
NextReviewed ==
    /\ spc = "loop"
    /\ sj <= Len(sfile)
    /\ IF skipped(sfile[sj])
       THEN /\ sj' = sj + 1
            /\ sout' = Printed("", "Skipping candidate", 0)
            /\ UNCHANGED <<spc, matches, weighted_matches>>
       ELSE /\ matches' = sfile[sj].matches
            /\ weighted_matches' = ranked(weigh_all(matches', ReviewWeights))
            /\ sout' = Printed("", "matches found",
                               IF Len(matches') > shown_limit THEN shown_limit
                               ELSE Len(matches'))
            /\ spc' = "prompt"
            /\ UNCHANGED sj
    /\ UNCHANGED <<kw_continue, kw_skipreciprocal, accession_file,
                   followup_file, join_file, previous, accession_ids,
                   followup_ids, joins, sfile>>
    /\ UNCHANGED not_session

\* the match file is exhausted
EndReview ==
    /\ spc = "loop"
    /\ sj > Len(sfile)
    /\ spc' = "finished"
    /\ UNCHANGED <<kw_continue, kw_skipreciprocal, accession_file,
                   followup_file, join_file, previous, accession_ids,
                   followup_ids, joins, sfile, sj, sout>>
    /\ UNCHANGED <<matches, weighted_matches>>
    /\ UNCHANGED not_session

\* one pass of the while loop: a command is read and carried out
Command ==
    /\ spc = "prompt"
    /\ \E s \in Commands :
         LET cid == sfile[sj].id
             m == rx_compound_cmd(s)
             idx == m.val - 1
         IN
         IF s \in {"q", "quit", "exit"}
         THEN /\ spc' = "quit"
              /\ sout' = Printed(s, "Exiting.", 0)
              /\ UNCHANGED <<accession_file, followup_file, join_file,
                             accession_ids, followup_ids, joins, sj>>
         ELSE IF s \in {"h", "help", "?"}
         THEN /\ sout' = Printed(s, "help", 0)
              /\ UNCHANGED <<accession_file, followup_file, join_file,
                             accession_ids, followup_ids, joins, sj, spc>>
         ELSE IF FALSE   \* s == {"w", "whole"}: a string never equals a set
         THEN /\ sout' = Printed(s, "listing", Len(weighted_matches))
              /\ UNCHANGED <<accession_file, followup_file, join_file,
                             accession_ids, followup_ids, joins, sj, spc>>
         ELSE IF s \in {"n", "next", "s", "skip"}
         THEN /\ sj' = sj + 1
              /\ spc' = "loop"
              /\ sout' = Printed(s, "", 0)
              /\ UNCHANGED <<accession_file, followup_file, join_file,
                             accession_ids, followup_ids, joins>>
         ELSE IF s \in {"a", "accession"}
         THEN /\ Len(accession_file.lines) < MaxLines
              /\ accession_ids' = accession_ids \cup {cid}
              /\ accession_file' = append(accession_file, cid)
              /\ sout' = Printed(s, "marked for accessioning", 0)
              /\ UNCHANGED <<followup_file, join_file, followup_ids, joins,
                             sj, spc>>
         ELSE IF s \in {"f", "followup"}
         THEN /\ Len(followup_file.lines) < MaxLines
              /\ followup_ids' = followup_ids \cup {cid}
              /\ followup_file' = append(followup_file, cid)
              /\ sout' = Printed(s, "marked for follow-up", 0)
              /\ UNCHANGED <<accession_file, join_file, accession_ids, joins,
                             sj, spc>>
         ELSE IF len(s) > 1
         THEN IF ~m.matched
              THEN /\ sout' = Printed(s, "Unrecognized command", 0)
                   /\ UNCHANGED <<accession_file, followup_file, join_file,
                                  accession_ids, followup_ids, joins, sj, spc>>
              ELSE IF ~(0 <= idx /\ idx < Len(weighted_matches))
              THEN /\ sout' = Printed(s, "Invalid match number", 0)
                   /\ UNCHANGED <<accession_file, followup_file, join_file,
                                  accession_ids, followup_ids, joins, sj, spc>>
              ELSE LET r == join(joins, join_file, cid,
                                 weighted_matches[idx + 1][1].pid)
                   IN  /\ joins' = r.joins
                       /\ join_file' = r.file
                       /\ sout' = Printed(s, r.printed, 0)
                       /\ UNCHANGED <<accession_file, followup_file,
                                      accession_ids, followup_ids, sj, spc>>
         ELSE /\ sout' = Printed(s, "", 0)
              /\ UNCHANGED <<accession_file, followup_file, join_file,
                             accession_ids, followup_ids, joins, sj, spc>>
    /\ UNCHANGED <<kw_continue, kw_skipreciprocal, previous, sfile>>
    /\ UNCHANGED <<matches, weighted_matches>>
    /\ UNCHANGED not_session

SessionIdle ==
    /\ kw_continue = FALSE
    /\ kw_skipreciprocal = FALSE
    /\ accession_file = Absent
    /\ followup_file = Absent
    /\ join_file = Absent
    /\ previous = [accession |-> Absent, followup |-> Absent]
    /\ accession_ids = {}
    /\ followup_ids = {}
    /\ joins = EmptyDict
    /\ spc = "idle"
    /\ sfile = << >>
    /\ sj = 1
    /\ sout = NoOutput

(***************************************************************************)
(* Specifications.                                                         *)
(***************************************************************************)
Init ==
    /\ ReadyIndex /\ MatchIdle /\ LoadIdle /\ ReviewIdle
    /\ FootprintIdle /\ LinksIdle /\ SessionIdle

Next ==
    \/ NextCandidate
    \/ FirstOrderLinks
    \/ ShortCircuit
    \/ SecondOrderLinks
    \/ SpatialMatch
    \/ NearestMatch
    \/ ExactNameMatch
    \/ FuzzyNameMatch
    \/ Record
    \/ Return

Spec == Init /\ [][Next]_vars

InitIndex ==
    /\ gaz \in Gazetteers
    /\ order \in Orders
    /\ ipc = "new"
    /\ ik = 1
    /\ attrs = {}
    /\ names_index = EmptyDict
    /\ hulls = << >>
    /\ tree_built = FALSE
    /\ spatial_index_2_pid = EmptyDict
    /\ links_index = EmptyDict
    /\ links_by_pids = EmptyDict
    /\ qres = NoQuery
    /\ MatchIdle
    /\ LoadIdle
    /\ ReviewIdle
    /\ FootprintIdle
    /\ LinksIdle
    /\ SessionIdle

NextIndex ==
    \/ Construct
    \/ NamesStep
    \/ SpatialBegin
    \/ SpatialStep
    \/ SpatialDone
    \/ LinksBegin
    \/ LinksStep
    \/ LinksDone
    \/ QuerySpatial
    \/ QueryNearest
    \/ QueryPidByLink
    \/ QueryLinksByPid

SpecIndex == InitIndex /\ [][NextIndex]_vars

IndexIdle ==
    /\ gaz = [p \in Pids |-> RawD]
    /\ order = <<"p1", "p2">>
    /\ ipc = "new"
    /\ ik = 1
    /\ attrs = {}
    /\ names_index = EmptyDict
    /\ hulls = << >>
    /\ tree_built = FALSE
    /\ spatial_index_2_pid = EmptyDict
    /\ links_index = EmptyDict
    /\ links_by_pids = EmptyDict
    /\ qres = NoQuery

InitLoad ==
    /\ lfile \in SeqsUpTo(FeaturePool, MaxFeatures)
    /\ lpos = 1
    /\ lcandidates = EmptyDict
    /\ features = EmptyDict
    /\ lstatus = "loading"
    /\ IndexIdle
    /\ MatchIdle
    /\ ReviewIdle
    /\ FootprintIdle
    /\ LinksIdle
    /\ SessionIdle

NextLoad ==
    \/ LoadFeature
    \/ LoadFinish

SpecLoad == InitLoad /\ [][NextLoad]_vars

InitReview ==
    /\ rpc = "candidate"
    /\ matches \in MatchLists
    /\ weights \in WeightTables
    /\ weighed = << >>
    /\ weighted_matches = << >>
    /\ IndexIdle
    /\ MatchIdle
    /\ LoadIdle
    /\ FootprintIdle
    /\ LinksIdle
    /\ SessionIdle

NextRank ==
    \/ WeighMatch
    \/ RankMatches

SpecReview == InitReview /\ [][NextRank]_vars

InitFootprint ==
    /\ fraw \in FootprintPool
    /\ geos \in GeosOutcomes
    /\ cache_file = NoFile
    /\ now = 0
    /\ memo = [o \in Objs |-> NotComputed]
    /\ fres = NoRequest
    /\ IndexIdle
    /\ MatchIdle
    /\ LoadIdle
    /\ ReviewIdle
    /\ LinksIdle
    /\ SessionIdle

NextFootprint ==
    \/ RequestFootprint
    \/ Tick

SpecFootprint == InitFootprint /\ [][NextFootprint]_vars

InitLinks ==
    /\ klinks \in SeqsUpTo(LinkPool, MaxLinks)
    /\ kpos = 1
    /\ links = {}
    /\ kstatus = "resolving"
    /\ IndexIdle
    /\ MatchIdle
    /\ LoadIdle
    /\ ReviewIdle
    /\ FootprintIdle
    /\ SessionIdle

NextLinks ==
    \/ ResolveLink
    \/ ReturnLinks

SpecLinks == InitLinks /\ [][NextLinks]_vars

InitNames ==
    /\ gaz \in [Pids -> NamePool]
    /\ order \in Orders
    /\ ipc = "new"
    /\ ik = 1
    /\ attrs = {}
    /\ names_index = EmptyDict
    /\ hulls = << >>
    /\ tree_built = FALSE
    /\ spatial_index_2_pid = EmptyDict
    /\ links_index = EmptyDict
    /\ links_by_pids = EmptyDict
    /\ qres = NoQuery
    /\ MatchIdle
    /\ LoadIdle
    /\ ReviewIdle
    /\ FootprintIdle
    /\ LinksIdle
    /\ SessionIdle

NextNames ==
    \/ Construct
    \/ NamesStep

SpecNames == InitNames /\ [][NextNames]_vars

InitSession ==
    /\ kw_continue \in BOOLEAN
    /\ kw_skipreciprocal \in BOOLEAN
    /\ \E prev \in PreviousOutputs :
         /\ accession_file = prev.accession
         /\ followup_file = prev.followup
         /\ join_file = prev.join
    /\ previous = [accession |-> Absent, followup |-> Absent]
    /\ accession_ids = {}
    /\ followup_ids = {}
    /\ joins = EmptyDict
    /\ spc = "start"
    /\ sfile \in SessionFiles
    /\ sj = 1
    /\ sout = NoOutput
    /\ IndexIdle
    /\ MatchIdle
    /\ LoadIdle
    /\ ReviewIdle
    /\ FootprintIdle
    /\ LinksIdle

NextSession ==
    \/ StartSession
    \/ ProceedToReview
    \/ NextReviewed
    \/ EndReview
    \/ Command

SpecSession == InitSession /\ [][NextSession]_vars

(***************************************************************************)
(* Properties of the matcher, checked under Spec.                          *)
(***************************************************************************)
\* the lookups a reciprocal link makes unnecessary
SpatialNameLookups == {"spatial_query", "spatial_nearest", "names_index", "fuzzy"}

\* the iteration of the current candidate is over
Finished == mpc \in {"loop", "done"} /\ cand # NoCand

\* the candidate's only link is a first-order link to P, and P's reverse
\* links, filtered to the netloc of the candidate id, hold the candidate id
OnlyReciprocalLinkTo(P) ==
    /\ cand.links = {PL(P)}
    /\ cand.id \in get_links_by_pid(P, Netloc(cand.id))

\* C1: a candidate whose only link is a first-order link to a place P that
\* links back to the candidate's id ends with exactly the tags
\* {first-order link, reciprocal link} for P and no other pid, and from the
\* link test to the end of its iteration no spatial_query, spatial_nearest,
\* name-index or fuzzy-name lookup is issued for it.
C1_ReciprocalShortCircuit ==
    \A P \in Pids :
      (cand # NoCand /\ OnlyReciprocalLinkTo(P)) =>
        /\ calls \cap SpatialNameLookups = {}
        /\ mpc \in {"links", "check", "loop", "done"}
        /\ Finished =>
             /\ cand.id \in DOMAIN match_vote_totals
             /\ match_vote_totals[cand.id] =
                   (P :> {"first-order link", "reciprocal link"})

C1_Witness ==
    /\ Finished
    /\ \E P \in Pids : OnlyReciprocalLinkTo(P)
    /\ calls = {"get_links_by_pid"}

\* C2: tags accumulate: when the last signal of a candidate that is not
\* short-circuited has run, every pid carries the tag of every signal that
\* hit it (a pid hit by a link and by the footprint query carries both).
C2_TagsAccumulate ==
    mpc = "record" =>
      \A pid \in Pids :
        LET tags == Get(match_votes, pid, {})
        IN  /\ pid \in DOMAIN first_order_votes(cand)
                 => "first-order link" \in tags
            /\ pid \in second_order_pids(cand)
                 => "second-order link" \in tags
            /\ pid \in spatial_query(buffered_geom(cand))
                 => "footprint" \in tags
            /\ (/\ spatial_query(buffered_geom(cand)) = {}
                /\ pid \in spatial_nearest(cand.geometry))
                 => "nearest" \in tags
            /\ pid \in exact_name_pids(cand)
                 => "exact name" \in tags

\* no signal has a hit for the candidate
NoSignalHit(c) ==
    /\ plinks(c) = {}
    /\ second_order_pids(c) = {}
    /\ spatial_query(buffered_geom(c)) = {}
    /\ spatial_nearest(c.geometry) = {}
    /\ exact_name_pids(c) = {}
    /\ fuzzy_name_pids(c) = {}

\* C4 (as amended): a candidate for which no signal has a hit is a key of
\* the result, mapped to an empty vote mapping; its iteration ends normally.
C4_NoHitEmptyEntry ==
    (Finished /\ NoSignalHit(cand)) =>
      /\ cand.id \in DOMAIN match_vote_totals
      /\ DOMAIN match_vote_totals[cand.id] = {}

\* C4 (as claimed): a candidate for which no signal has a hit is not a key
\* of the result.
C4_NoHitAbsent ==
    (Finished /\ NoSignalHit(cand)) => cand.id \notin DOMAIN match_vote_totals

C4_Witness ==
    /\ Finished
    /\ NoSignalHit(cand)
    /\ calls = {"spatial_query", "spatial_nearest", "names_index", "fuzzy"}

\* the votes of the current candidate are final and it was not short-circuited
VotesFinal == mpc = "record" \/ (Finished /\ ~skip_other_tests)

\* C7: whenever the spatial hit set of a candidate (the footprint hits, or
\* the nearest hits when there is no footprint hit) is not empty, every pid
\* tagged fuzzy name for the candidate is in that set.
C7_FuzzyWithinSpatial ==
    (VotesFinal /\ spatial_matched_pids # {}) =>
      /\ \A pid \in DOMAIN match_votes :
           "fuzzy name" \in match_votes[pid] => pid \in spatial_matched_pids
      /\ Finished => match_vote_totals[cand.id] = match_votes

C7_Witness ==
    /\ VotesFinal
    /\ spatial_matched_pids # {}
    /\ fuzzy_name_pids(cand) \ spatial_matched_pids # {}
    /\ \E pid \in DOMAIN match_votes : "fuzzy name" \in match_votes[pid]

\* C8: for a candidate that is not short-circuited and has no spatial hit
\* at all, every pid the fuzzy name match reaches is tagged fuzzy name.
C8_FuzzyKeptWithoutSpatial ==
    (mpc = "record" /\ spatial_matched_pids = {}) =>
      \A pid \in fuzzy_name_pids(cand) :
        "fuzzy name" \in Get(match_votes, pid, {})

(***************************************************************************)
(* Properties of the index, checked under SpecIndex.                       *)
(***************************************************************************)
\* C3: spatial_query(g) returns exactly the pids whose footprint intersects
\* g, and a query with a place's own footprint returns that place's pid.
C3_SpatialQueryExact ==
    (qres.op = "spatial_query" /\ qres.outcome = "result" /\ qres.at = "Ready") =>
      /\ qres.pids = { p \in Pids : Intersects(footprint(gaz[p]), qres.g) }
      /\ \A p \in Pids : qres.g = footprint(gaz[p]) /\ qres.g # NoFootprint
                           => p \in qres.pids

\* C6: a query issued in a state other than Ready fails; it returns no
\* result.
C6_QueriesFailUnlessReady ==
    (qres.op # "none" /\ qres.at # "Ready") => qres.outcome # "result"

(***************************************************************************)
(* Properties of the loader, checked under SpecLoad.                       *)
(***************************************************************************)
\* C5: a load of a file in which two features carry the same id does not
\* complete: it ends in an error.
C5_DuplicateIdsRejected ==
    lstatus = "loaded" =>
      \A i, j \in 1..Len(lfile) : i # j => lfile[i]["id"] # lfile[j]["id"]

(***************************************************************************)
(* Properties of the ranking, checked under SpecReview.                    *)
(***************************************************************************)
\* C9: the weight of a match is the smallest index (from 0) of a table
\* entry that is a subset of its match types, and the length of the table
\* when no entry is; with the table [{reciprocal link}, {footprint, exact
\* name}, {footprint}]: {footprint, exact name, nearest} -> 1,
\* {footprint} -> 2, {nearest} -> 3.
C9_RankIsFirstSubset ==
    \A k \in 1..Len(weighed) :
      LET t == weighed[k][1].match_types
          w == weighed[k][2]
      IN  /\ w \in 0..Len(weights)
          /\ w < Len(weights) => weights[w + 1] \subseteq t
          /\ \A i \in 1..Len(weights) : i < w + 1 => ~(weights[i] \subseteq t)
          /\ weights = ExampleWeights =>
               /\ t = {"footprint", "exact name", "nearest"} => w = 1
               /\ t = {"footprint"} => w = 2
               /\ t = {"nearest"} => w = 3

C9_Witness ==
    /\ weights = ExampleWeights
    /\ \E k \in 1..Len(weighed) :
         weighed[k][1].match_types = {"footprint", "exact name", "nearest"}
    /\ \E k \in 1..Len(weighed) : weighed[k][1].match_types = {"nearest"}

\* C10: the ranked list is a permutation of the candidate's matches, in
\* non-decreasing weight, and matches of equal weight keep their order.
C10_RankingOrdersOnly ==
    rpc = "ranked" =>
      /\ Len(weighted_matches) = Len(matches)
      /\ \A i \in 1..Len(matches) :
           \E j \in 1..Len(weighted_matches) :
             weighted_matches[j] = weighed[i] /\ weighed[i][1] = matches[i]
      /\ \A i, j \in 1..Len(weighted_matches) :
           i < j =>
             /\ weighted_matches[i][2] <= weighted_matches[j][2]
             /\ weighted_matches[i][2] = weighted_matches[j][2]
                  => weighted_matches[i][1].pid < weighted_matches[j][1].pid

\* three matches ranked, two of equal weight behind a match that came later
C10_Witness ==
    /\ rpc = "ranked"
    /\ Len(weighted_matches) = 3
    /\ weighted_matches[1][1].pid = 3
    /\ weighted_matches[2][2] = weighted_matches[3][2]

C17_LinkIndexesDual ==
    ipc = "ready" =>
      /\ \A u \in QueryUris \cup DOMAIN links_index : \A p \in Pids :
           p \in Get(links_index, u, {}) <=> u \in Get(links_by_pids, p, {})
      /\ \A u \in QueryUris :
           Get(links_index, u, {}) =
             { p \in Pids : u \in reference_uris(gaz[p]) }

C17_Witness ==
    /\ ipc = "ready"
    /\ \E u \in DOMAIN links_index : Cardinality(links_index[u]) = 2

\* C18: once the index is built, no step changes the name index, the two
\* link indexes, the tree or its position-to-pid table.
C18_IndexReadOnly ==
    [][ipc = "ready" =>
         UNCHANGED <<names_index, links_index, links_by_pids, hulls,
                     tree_built, spatial_index_2_pid>>]_vars

C18_Witness ==
    /\ ipc = "ready"
    /\ qres.at = "Ready"
    /\ qres.op = "get_pid_by_link"
    /\ qres.outcome = "result"
    /\ qres.pids = {}
    /\ links_index # EmptyDict

C16_NameStringsAsSpecified ==
    (ipc = "names" /\ ik > Len(order)) =>
      LET wrapped(t) == startswith(t, "(") /\ endswith(t, ")")
          segments(raw) ==
            { strip(raw.title[i]) : i \in 1..Len(raw.title) } \ {""}
          specified(raw) ==
            { t \in segments(raw) : ~wrapped(t) }
              \cup attested_forms(raw) \cup romanized_forms(raw)
      IN  names_index =
            [n \in UNION { specified(gaz[p]) : p \in Pids } |->
               { p \in Pids : n \in specified(gaz[p]) }]

(***************************************************************************)
(* Properties of the footprint and its caches, checked under               *)
(* SpecFootprint.                                                          *)
(***************************************************************************)
\* C12: a request that returns leaves a cache entry that holds its result,
\* the empty file when there is no footprint and the geometry otherwise;
\* and a request made while the entry is younger than the TTL returns what
\* the entry holds, without computing and without rewriting the entry.
C12_FreshEntryServed ==
    [][RequestFootprint =>
         /\ fres'.outcome = "value" =>
              /\ cache_file'.exists
              /\ cache_read(cache_file') = fres'.value
              /\ cache_file'.text = "" <=> fres'.value = NoFootprint
         /\ cache_fresh(cache_file, now) =>
              /\ fres'.outcome = "value"
              /\ fres'.source # "computed"
              /\ fres'.value = cache_read(cache_file)
              /\ cache_file' = cache_file]_vars

C12_Witness ==
    /\ fres.source = "cache file"
    /\ fres.value = NoFootprint
    /\ cache_file.exists
    /\ cache_file.text = ""
    /\ fraw.locations # << >>

\* C13: a request made when the cache entry is older than the TTL computes
\* the footprint again and rewrites the entry.
C13_ExpiredEntryRecomputed ==
    [][(RequestFootprint /\ cache_file.exists /\ ~cache_fresh(cache_file, now))
         => (fres'.source = "computed" /\ cache_file'.mtime = now)]_vars

C15_HullFallbackOrder ==
    [][(/\ RequestFootprint
        /\ ~memo[fres'.obj].computed
        /\ ~cache_fresh(cache_file, now)
        /\ ~missing_accuracy(fraw)
        /\ buffered_geometries(fraw) # {}) =>
         LET geoms == buffered_geometries(fraw)
         IN  /\ geos.concave_ok =>
                  /\ fres'.outcome = "value"
                  /\ fres'.value = concave_hull(geoms)
             /\ (~geos.concave_ok /\ geos.convex_ok /\ geos.retry_ok) =>
                  /\ fres'.outcome = "value"
                  /\ fres'.value = concave_hull({convex_hull(geoms)})
             /\ (~geos.concave_ok /\ ~(geos.convex_ok /\ geos.retry_ok)) =>
                  /\ fres'.outcome = "GEOSException"
                  /\ fres'.value = NoFootprint
                  /\ UNCHANGED <<cache_file, memo>>]_vars

C15_Witness ==
    /\ fres.outcome = "GEOSException"
    /\ ~geos.concave_ok /\ geos.convex_ok /\ ~geos.retry_ok
    /\ ~cache_file.exists
    /\ fraw = RawG

(***************************************************************************)
(* Properties of the candidate links, checked under SpecLinks.             *)
(***************************************************************************)
\* C20 as stated: links returns only when no closeMatch link has a compact
\* identifier whose namespace is without an expansion.
C20_UnexpandedNamespaceFails ==
    kstatus = "returned" =>
      \A i \in 1..Len(klinks) :
        (klinks[i].type = "closeMatch" /\ ~is_http(klinks[i]))
          => klinks[i].namespace \in Expanded

\* C20: links returns only when every closeMatch link with a compact
\* identifier has a namespace that is expanded or one of loc, gnd, bnf,
\* which are skipped; the first other namespace raises NotImplementedError.
C20_UnrecognizedNamespaceFails ==
    LET unrecognized(l) ==
          /\ l.type = "closeMatch" /\ ~is_http(l)
          /\ l.namespace \notin (Expanded \cup Ignored)
    IN  /\ kstatus = "returned" =>
              \A i \in 1..Len(klinks) : ~unrecognized(klinks[i])
        /\ kstatus = "NotImplementedError" =>
              /\ unrecognized(klinks[kpos])
              /\ \A i \in 1..(kpos - 1) : ~unrecognized(klinks[i])
        /\ kstatus = "returned" =>
              \A i \in 1..Len(klinks) :
                (klinks[i].type = "closeMatch" /\ ~is_http(klinks[i])
                   /\ klinks[i].namespace \in Expanded)
                  => expand(klinks[i]) \in links

C20_Witness ==
    /\ kstatus = "NotImplementedError"
    /\ links # {}
    /\ \E i \in 1..(kpos - 1) : klinks[i].namespace \in Ignored

(***************************************************************************)
(* Further properties of the built index, checked under SpecIndex.         *)
(***************************************************************************)
\* C21: on the built index, for every maximum distance d, the nearest
\* lookup of a query geometry is empty exactly when no indexed footprint
\* lies within d of it, and otherwise it is the set of the pids whose
\* footprint is nearest, all of them within d; spatial_nearest returns that
\* set for its default distance.
C21_NearestEmptyIffNoneWithin ==
    (qres.op = "spatial_nearest" /\ qres.outcome = "result" /\ qres.at = "Ready") =>
      \A d \in 1..(max_distance + 1) :
        LET dist(p) == GeomDist2(footprint(gaz[p]), qres.g)
            within == { p \in Pids : /\ footprint(gaz[p]) # NoFootprint
                                     /\ dist(p) <= d * d }
            found == { spatial_index_2_pid[i] :
                         i \in tree_query_nearest(hulls, qres.g, d) }
        IN  /\ found = {} <=> within = {}
            /\ found = { p \in within : \A q \in within : dist(p) <= dist(q) }
            /\ d = max_distance => qres.pids = found

C21_Witness ==
    /\ qres.op = "spatial_nearest" /\ qres.outcome = "result"
    /\ qres.at = "Ready"
    /\ qres.pids = {}
    /\ hulls # << >>
    /\ { spatial_index_2_pid[i] :
           i \in tree_query_nearest(hulls, qres.g, max_distance + 1) } # {}

\* C23: once the tree is built, the side table has the positions 0..n-1
\* of the n geometries of the tree, n is the number of places with a
\* footprint, the pid at position i is the place whose footprint is the
\* i-th geometry, and every position a tree query returns is in the table.
C23_SideTableMatchesTree ==
    tree_built =>
      /\ DOMAIN spatial_index_2_pid = 0..(Len(hulls) - 1)
      /\ Len(hulls) =
           Cardinality({ p \in Pids : footprint(gaz[p]) # NoFootprint })
      /\ \A i \in DOMAIN spatial_index_2_pid :
           hulls[i + 1] = footprint(gaz[spatial_index_2_pid[i]])
      /\ \A i, j \in DOMAIN spatial_index_2_pid :
           i # j => spatial_index_2_pid[i] # spatial_index_2_pid[j]
      /\ \A g \in QueryGeoms :
           tree_query(hulls, g) \cup tree_query_nearest(hulls, g, max_distance)
             \subseteq DOMAIN spatial_index_2_pid

C23_Witness ==
    /\ tree_built
    /\ Len(hulls) = 1
    /\ footprint(gaz[order[1]]) = NoFootprint
    /\ spatial_index_2_pid[0] = order[2]
    /\ qres.op = "spatial_query" /\ qres.outcome = "result"
    /\ qres.pids = {order[2]}

\* C25: the built index is the same for every enumeration order of the
\* gazetteer: the name index and the two link indexes are equal to those
\* built in any other order, and spatial_query and spatial_nearest return
\* the same pids for every query geometry.
C25_BuildOrderIndependent ==
    ipc = "ready" =>
      \A o \in Orders :
        LET n == Len(o)
            side == built_side_table(gaz, o, n)
            hs == built_hulls(gaz, o, n)
        IN  /\ names_index = built_names(gaz, o, n)
            /\ links_index = built_links_index(gaz, o, n)
            /\ links_by_pids = built_links_by_pids(gaz, o, n)
            /\ \A g \in QueryGeoms :
                 /\ spatial_query(g) = { side[i] : i \in tree_query(hs, g) }
                 /\ spatial_nearest(g) =
                      { side[i] : i \in tree_query_nearest(hs, g, max_distance) }

C25_Witness ==
    /\ ipc = "ready"
    /\ order = <<"p2", "p1">>
    /\ Len(hulls) = 2
    /\ hulls[1] # hulls[2]
    /\ spatial_index_2_pid[0] = "p2"

(***************************************************************************)
(* Further properties of the matcher, checked under Spec.                  *)
(***************************************************************************)
\* C22: in the final votes of a candidate that is not short-circuited, a
\* pid carries second-order link exactly when a candidate link outside the
\* gazetteer's namespace is one of the place's reference uris; a
\* short-circuited candidate has no second-order link tag.
C22_SecondOrderIffSharedUri ==
    /\ VotesFinal =>
         \A pid \in Pids :
           "second-order link" \in Get(match_votes, pid, {})
             <=> \E l \in cand.links :
                   Netloc(l) # PleiadesHost /\ l \in reference_uris(gaz[pid])
    /\ (Finished /\ skip_other_tests) =>
         \A pid \in DOMAIN match_votes :
           "second-order link" \notin match_votes[pid]

\* C24 as stated: a candidate without links and without exact or fuzzy name
\* hits, whose geometry lies in the footprint of one place and meets no
\* other footprint, gets exactly that place, tagged footprint.
C24_ContainedInOneFootprint ==
    VotesFinal =>
      \A P \in Pids :
        (/\ cand.links = {}
         /\ exact_name_pids(cand) = {}
         /\ fuzzy_name_pids(cand) = {}
         /\ cand.geometry \subseteq footprint(gaz[P])
         /\ \A Q \in Pids \ {P} : ~Intersects(footprint(gaz[Q]), cand.geometry))
          => match_votes = (P :> {"footprint"})

\* C24: a candidate without links and without exact or fuzzy name hits, for
\* whose buffered geometry spatial_query returns one place, gets exactly
\* that place, tagged footprint, and that is its entry in the result.
C24_SoleFootprintHit ==
    \A P \in Pids :
      (/\ cand.links = {}
       /\ exact_name_pids(cand) = {}
       /\ fuzzy_name_pids(cand) = {}
       /\ spatial_query(buffered_geom(cand)) = {P})
        => /\ VotesFinal => match_votes = (P :> {"footprint"})
           /\ Finished => match_vote_totals[cand.id] = (P :> {"footprint"})

C24_Witness ==
    /\ Finished
    /\ cand.links = {}
    /\ exact_name_pids(cand) = {}
    /\ fuzzy_name_pids(cand) = {}
    /\ cand.geometry \subseteq footprint(gaz["p1"])
    /\ footprint(gaz["p2"]) # NoFootprint
    /\ gaz["p2"] # gaz["p1"]
    /\ match_vote_totals[cand.id] = ("p1" :> {"footprint"})

\* C29: after the loop over the candidate's gazetteer links, a pid carries
\* reciprocal link exactly when the candidate id is one of the place's uris
\* in the reverse link index; and for every id, with or without a netloc,
\* the test on the links restricted to the id's netloc gives what the test
\* on all the links of the place gives.
C29_ReciprocalIffExactReference ==
    /\ mpc = "check" =>
         \A pid \in DOMAIN match_votes :
           "reciprocal link" \in match_votes[pid]
             <=> cand.id \in Get(links_by_pids, pid, {})
    /\ \A cid \in CandidateIds \cup {PlainId} : \A pid \in Pids :
         is_reciprocal(cid, pid) <=> cid \in Get(links_by_pids, pid, {})

C29_Witness ==
    /\ mpc = "check"
    /\ \E pid \in DOMAIN match_votes : "reciprocal link" \in match_votes[pid]
    /\ \E l \in links_by_pids["p1"] : Netloc(l) # Netloc(cand.id)
    /\ is_reciprocal(PlainId, "p2")

\* the votes of a candidate computed from the candidate and the index alone
isolated_votes(c) ==
    LET fo == first_order_votes(c)
        so == add_tag(fo, second_order_pids(c), "second-order link")
        sp == spatial_query(buffered_geom(c))
        near == IF sp = {} THEN spatial_nearest(c.geometry) ELSE {}
        nv == add_tag(footprint_votes(so, sp), near, "nearest")
        spatial == sp \cup near
        ex == exact_name_pids(c)
        ev == add_tag(nv, ex, "exact name")
        m == DOMAIN so \cup spatial
               \cup (IF spatial # {} THEN spatial \cap ex ELSE ex)
        fz == fuzzy_name_pids(c)
    IN  IF \E pid \in DOMAIN fo : is_reciprocal(c.id, pid) THEN fo
        ELSE IF fz = {} THEN ev
        ELSE add_tag(ev, fuzzy_tagged(fuzzy_survivors(fz, spatial), m),
                     "fuzzy name")

\* C30: the entry recorded for a candidate is what the candidate and the
\* index alone give, whatever was processed before it, and the entries of
\* the candidates processed before stay as they were recorded.
C30_VotesIndependentOfOthers ==
    [][/\ \A cid \in DOMAIN match_vote_totals :
            /\ cid \in DOMAIN match_vote_totals'
            /\ match_vote_totals'[cid] = match_vote_totals[cid]
       /\ match_vote_totals' # match_vote_totals =>
            match_vote_totals'[cand.id] = isolated_votes(cand)]_vars

C30_Witness ==
    /\ mpc = "loop"
    /\ ~skip_other_tests
    /\ \E a \in DOMAIN match_vote_totals :
         /\ a # cand.id
         /\ \E pid \in DOMAIN match_vote_totals[a] :
              "reciprocal link" \in match_vote_totals[a][pid]
    /\ cand.id \in DOMAIN match_vote_totals
    /\ \E pid \in DOMAIN match_vote_totals[cand.id] :
         "fuzzy name" \in match_vote_totals[cand.id][pid]

(***************************************************************************)
(* Properties of the review session, checked under SpecSession.            *)
(***************************************************************************)
\* C26: in a session started without --continue and confirmed, each output
\* file holds only decisions of this session: every line of
\* to_accession.txt and follow_up.txt is in the session's sets and every
\* line of to_join.txt is an entry of the session's join table.
C26_FreshSessionOverwrites ==
    (~kw_continue /\ spc \in {"loaded", "loop", "prompt", "finished", "quit"}) =>
      /\ lines_of(accession_file) \subseteq accession_ids
      /\ lines_of(followup_file) \subseteq followup_ids
      /\ \A l \in lines_of(join_file) :
           l.cid \in DOMAIN joins /\ joins[l.cid] = l.pid

\* C27: after the command w or whole the script has listed all the ranked
\* matches of the candidate and is at the prompt of the same candidate.
C27_WholeListsAllMatches ==
    sout.cmd \in {"w", "whole"} =>
      /\ spc = "prompt"
      /\ sout.printed = "listing"
      /\ sout.count = Len(weighted_matches)

\* C28: a jN command changes the join table and the join file only when N
\* is the number of a match and the candidate has no join yet, and then it
\* adds that one join; for a candidate with a join it reports the error.
C28_AtMostOneJoin ==
    [][(spc = "prompt" /\ sout'.cmd \in {"j0", "j1", "j2", "j7"}) =>
         LET cid == sfile[sj].id
             N == rx_compound_cmd(sout'.cmd).val
             valid == N \in 1..Len(weighted_matches)
         IN  /\ (cid \in DOMAIN joins \/ ~valid) =>
                  UNCHANGED <<joins, join_file>>
             /\ (cid \in DOMAIN joins /\ valid) =>
                  sout'.printed = "ERROR already marked to join"
             /\ ~valid => sout'.printed = "Invalid match number"
             /\ (cid \notin DOMAIN joins /\ valid) =>
                  /\ joins' = Put(joins, cid, weighted_matches[N][1].pid)
                  /\ join_file' =
                       append(join_file,
                              JoinLine(cid, weighted_matches[N][1].pid))]_vars

C28_Witness ==
    /\ spc = "prompt"
    /\ sout.cmd = "j2"
    /\ sout.printed = "ERROR already marked to join"
    /\ sfile[sj].id \in DOMAIN joins
    /\ joins[sfile[sj].id] = weighted_matches[1][1].pid
    /\ Len(join_file.lines) = 1

=========================================================================
